---- MODULE Spec2Model ----
(***************************************************************************)
(* Model of the asynchronous loader and the cloud navigation history of   *)
(* FileExplorer (vault/components/file_tree_viewer.py).                    *)
(*                                                                         *)
(* The main (GUI) thread runs one handler at a time; every action below   *)
(* is one handler run on the main thread, except WorkerRun, which is the  *)
(* body of _LoaderWorker.run on its own QThread.  Signals emitted by a    *)
(* worker thread are queued to the main thread: the emission (WorkerRun), *)
(* the delivery of finished/error (Deliver) and the slot connected to     *)
(* QThread.finished (CleanupLoader) are therefore separate steps.         *)
(*                                                                         *)
(* Spec is the explorer.  DavSpec is one call of the WebDAV client         *)
(* (services/dav/client.py): list with its pool of metadata fetches,      *)
(* download or upload.  SmbSpec is one listing of a share directory       *)
(* (services/smb/client.py), XferSpec one download or upload of the share *)
(* client (XferFairSpec: run to its end), CallSpec one call of            *)
(* connect_to_backend, of _format_modified, of _normalize_cloud_path or   *)
(* of _LoaderWorker.run.  Each specification holds the variables of the   *)
(* others at rest.                                                         *)
(*                                                                         *)
(* Paths are sequences of one-character strings so that the string        *)
(* operations of _normalize_cloud_path are computed, not assumed.         *)
(* Optional values (None | value) are <<>> | <<value>>.                    *)
(***************************************************************************)
EXTENDS Integers, Sequences, FiniteSets, TLC

VARIABLES
    session_info,         \* the caller's descriptor (self.session_info)
    _loading,             \* self._loading
    _ever_loaded_ok,      \* self._ever_loaded_ok
    _root_handle,         \* self._root_handle: "None", or the backend of the handle
    _current_path,        \* self._current_path
    _history,             \* self._history
    _history_index,       \* self._history_index (0-based, -1 when empty)
    _pending_nav_target,  \* self._pending_nav_target: <<>> or <<path>>
    _pending_nav_mode,    \* self._pending_nav_mode: "None" or a mode
    file_tree,            \* names of the top-level items of self.file_tree
    workers,              \* loader workers started and not yet cleaned up
    ret,                  \* last value returned by load_files_async
    started,              \* number of loader workers started so far
    swaps                 \* number of times the caller replaced the descriptor

\* OwnCloudWebDAVClient (services/dav/client.py): one call of list, download
\* or upload, and the WebDAV server it talks to
VARIABLES
    environ,       \* os.environ: SIG_WEB_DAV_INFO_DIRECTORIES, SIG_WEB_DAV_INFO_WORKERS
    server,        \* the server: the raw listing, or the message of its failure
    dav_op,        \* the operation called and its argument
    results,       \* list: results
    info_indices,  \* list: info_indices, a dict as a sequence of <<key, value>>
    max_workers,   \* list: max_workers given to the ThreadPoolExecutor
    futures,       \* list: the futures submitted to the executor
    info_calls,    \* paths client.info was called with, in call order
    raised,        \* the exception that left the operation: <<>> or <<kind>>
    client_calls,  \* calls of client.mkdir and client.upload_sync, in order
    dav_pc         \* position of the call: "off", "call", "pool", "done"

dav_vars == <<environ, server, dav_op, results, info_indices, max_workers,
              futures, info_calls, raised, client_calls, dav_pc>>

\* list_files_in_directory (services/smb/client.py): one listing of a share
\* directory
VARIABLES
    directory,     \* what root.query_directory answers: its records and status
    media,         \* list_files_in_directory: media
    smb_next,      \* index of the record the for loop handles next
    smb_pc         \* position of the call: "off", "loop", "done"

smb_vars == <<directory, media, smb_next, smb_pc>>

\* download_file and upload_file (services/smb/client.py): one transfer
VARIABLES
    xfer_op,       \* the function called and its remote_path and local_path
    share_file,    \* the server: what create, each read, write and close answer
    local_file,    \* the local file system: whether the file opens, how many
                   \* writes it takes, and the content of the file to upload
    file,          \* the Open object: the name it was built with and its state
    offset,        \* download_file: offset
    f_out,         \* the destination file: <<>> until opened, then <<bytes>>
    read_calls,    \* the calls of file.read: <<offset, length>>, in order
    write_calls,   \* the calls of file.write: <<data, offset>>, in order
    close_calls,   \* the number of calls of file.close
    xfer_raised,   \* the exception that left the function: <<>> or <<e>>
    xfer_pc        \* position: "off", "call", "read", "finally", "done"

xfer_vars == <<xfer_op, share_file, local_file, file, offset, f_out,
               read_calls, write_calls, close_calls, xfer_raised, xfer_pc>>

\* connect_to_backend and _format_modified (components/file_tree_viewer.py):
\* one call
VARIABLES
    call,          \* the function called and its arguments
    credentials,   \* .sig/credentials.json: <<>> when it cannot be read
    returned,      \* what the call returned
    call_pc        \* position of the call: "off", "call", "done"

call_vars == <<call, credentials, returned, call_pc>>

vars == <<session_info, _loading, _ever_loaded_ok, _root_handle, _current_path,
          _history, _history_index, _pending_nav_target, _pending_nav_mode,
          file_tree, workers, ret, started, swaps>>

\* the variables each specification leaves at rest
beside_loader == <<dav_vars, smb_vars, xfer_vars, call_vars>>
beside_dav == <<vars, smb_vars, xfer_vars, call_vars>>
beside_smb == <<vars, dav_vars, xfer_vars, call_vars>>
beside_xfer == <<vars, dav_vars, smb_vars, call_vars>>
beside_call == <<vars, dav_vars, smb_vars, xfer_vars>>

-----------------------------------------------------------------------------
(* Bounds *)

\* loader workers started over one run
MaxLoads == 5

\* loader workers that exist at once (running, or delivered and not yet
\* cleaned up)
MaxWorkers == 2

\* replacements of the descriptor by the caller over one run
MaxSwaps == 1

-----------------------------------------------------------------------------
(* Strings *)

WHITESPACE == {" "}

RECURSIVE lstrip(_, _)
lstrip(s, cs) ==
    IF s = <<>> \/ Head(s) \notin cs THEN s ELSE lstrip(Tail(s), cs)

RECURSIVE rstrip(_, _)
rstrip(s, cs) ==
    IF s = <<>> \/ s[Len(s)] \notin cs THEN s
    ELSE rstrip(SubSeq(s, 1, Len(s) - 1), cs)

\* str.strip(chars)
strip(s, cs) == rstrip(lstrip(s, cs), cs)

\* str.replace("\\", "/")
replace_backslash(s) ==
    [i \in 1..Len(s) |-> IF s[i] = "\\" THEN "/" ELSE s[i]]

\* FileExplorer._normalize_cloud_path
_normalize_cloud_path(p) ==
    strip(replace_backslash(strip(p, WHITESPACE)), {"/"})

-----------------------------------------------------------------------------
(* Environment: the descriptors a caller supplies, the paths it navigates *)
(* to and the content of the remote storage.                              *)

None == <<>>
Some(x) == <<x>>

ROOT == <<>>
PathA == <<"a">>
PathAB == <<"a", "/", "b">>
PathC == <<"c">>

\* arguments given to _navigate_to
RawTargets ==
    {PathA, <<"\\", "a", "/", "b", "/">>, PathC}

\* storage: the trimmed lower-cased "storage" field ("local" when absent);
\* creds: username and password are non-blank; share: server and share are
\* non-empty; current_path: the first non-empty of current_path/path/cwd/dir.
Descriptors ==
    {[storage |-> "cloud", creds |-> TRUE, share |-> FALSE,
      current_path |-> None],
     [storage |-> "cloud", creds |-> FALSE, share |-> FALSE,
      current_path |-> None],
     [storage |-> "local", creds |-> TRUE, share |-> TRUE,
      current_path |-> None],
     [storage |-> "local", creds |-> TRUE, share |-> FALSE,
      current_path |-> None]}

\* what list returns for a directory of the remote storage
RemoteListing(p) ==
    CASE p = ROOT -> <<"a", "c">>
      [] p = PathA -> <<"b">>
      [] OTHER -> <<>>

-----------------------------------------------------------------------------
(* Descriptor checks *)

\* (s.get("storage") or "local").strip().lower() == "cloud"
is_cloud(s) == s.storage = "cloud"

\* the pre-connect validation shared by load_files_async and _fetch_files:
\* blank username or password, or share mode without server and share
not_connected(s) ==
    \/ ~s.creds
    \/ (~is_cloud(s) /\ ~s.share)

\* the seed path: current_path or path or cwd or dir or "", normalized
seed_path(s) ==
    _normalize_cloud_path(IF s.current_path = None THEN ROOT
                          ELSE s.current_path[1])

\* storage_interface.get_backend: the adapter that serves a descriptor
get_backend(s) == IF s.storage = "cloud" THEN "dav" ELSE "smb"

-----------------------------------------------------------------------------
(* Loader workers *)

\* One QThread + _LoaderWorker pair.  kind: "full" runs _fetch_files
\* (connect + list), "nav" runs the fetch closure of _start_loader_for_path
\* (list of target).  st: "running" until run() has emitted, then "finished"
\* or "error" until the main thread has run the connected slot, then
\* "delivered" until the slot of QThread.finished (_cleanup_loader) has run.
\* ref: self._loader_worker / self._loader_thread refer to this pair.
\* mode, req_history, req_index, req_path: the request that started the
\* worker and the navigation state at that request.
NewWorker(kind, target, mode) ==
    [kind |-> kind, target |-> target, mode |-> mode, st |-> "running",
     root |-> "None", files |-> <<>>, ref |-> TRUE,
     req_history |-> _history, req_index |-> _history_index,
     req_path |-> _current_path]

\* self._loader_thread = QThread(self); self._loader_worker = _LoaderWorker(fn);
\* ...; self._loader_thread.start()
start_worker(w) ==
    Append([i \in 1..Len(workers) |-> [workers[i] EXCEPT !.ref = FALSE]], w)

RemoveAt(s, i) == SubSeq(s, 1, i - 1) \o SubSeq(s, i + 1, Len(s))

InFlight(w) == w.st \in {"running", "finished", "error"}

\* FileExplorer.can_go_back / can_go_forward
can_go_back == _history_index > 0

can_go_forward == 0 <= _history_index /\ _history_index < Len(_history) - 1

-----------------------------------------------------------------------------
(* Operations of the main thread *)

\* load_files_async with the _loading test moved ahead of the validation
load_files_async_loading_first ==
    IF _loading THEN
        /\ ret' = "True"
        /\ UNCHANGED <<session_info, _loading, _ever_loaded_ok, _root_handle,
                       _current_path, _history, _history_index,
                       _pending_nav_target, _pending_nav_mode, file_tree,
                       workers, started, swaps>>
    ELSE IF not_connected(session_info) THEN
        /\ file_tree' = IF ~_ever_loaded_ok THEN <<>> ELSE file_tree
        /\ ret' = "False"
        /\ UNCHANGED <<session_info, _loading, _ever_loaded_ok, _root_handle,
                       _current_path, _history, _history_index,
                       _pending_nav_target, _pending_nav_mode, workers,
                       started, swaps>>
    ELSE
        /\ started < MaxLoads
        /\ Len(workers) < MaxWorkers
        /\ _loading' = TRUE
        /\ workers' = start_worker(NewWorker("full", ROOT, "initial"))
        /\ started' = started + 1
        /\ ret' = "True"
        /\ UNCHANGED <<session_info, _ever_loaded_ok, _root_handle,
                       _current_path, _history, _history_index,
                       _pending_nav_target, _pending_nav_mode, file_tree,
                       swaps>>

\* load_files_async without the server/share test of share mode
load_files_async_no_share_check ==
    IF ~session_info.creds THEN
        /\ file_tree' = IF ~_ever_loaded_ok THEN <<>> ELSE file_tree
        /\ ret' = "False"
        /\ UNCHANGED <<session_info, _loading, _ever_loaded_ok, _root_handle,
                       _current_path, _history, _history_index,
                       _pending_nav_target, _pending_nav_mode, workers,
                       started, swaps>>
    ELSE IF _loading THEN
        /\ ret' = "True"
        /\ UNCHANGED <<session_info, _loading, _ever_loaded_ok, _root_handle,
                       _current_path, _history, _history_index,
                       _pending_nav_target, _pending_nav_mode, file_tree,
                       workers, started, swaps>>
    ELSE
        /\ started < MaxLoads
        /\ Len(workers) < MaxWorkers
        /\ _loading' = TRUE
        /\ workers' = start_worker(NewWorker("full", ROOT, "initial"))
        /\ started' = started + 1
        /\ ret' = "True"
        /\ UNCHANGED <<session_info, _ever_loaded_ok, _root_handle,
                       _current_path, _history, _history_index,
                       _pending_nav_target, _pending_nav_mode, file_tree,
                       swaps>>

\* FileExplorer.load_files_async (load_files delegates to it)
load_files_async ==
    LET s == session_info IN
    IF not_connected(s) THEN
        /\ file_tree' = IF ~_ever_loaded_ok THEN <<>> ELSE file_tree
        /\ ret' = "False"
        /\ UNCHANGED <<session_info, _loading, _ever_loaded_ok, _root_handle,
                       _current_path, _history, _history_index,
                       _pending_nav_target, _pending_nav_mode, workers,
                       started, swaps>>
    ELSE IF _loading THEN
        /\ ret' = "True"
        /\ UNCHANGED <<session_info, _loading, _ever_loaded_ok, _root_handle,
                       _current_path, _history, _history_index,
                       _pending_nav_target, _pending_nav_mode, file_tree,
                       workers, started, swaps>>
    ELSE
        /\ started < MaxLoads
        /\ Len(workers) < MaxWorkers
        /\ _loading' = TRUE
        /\ workers' = start_worker(NewWorker("full", ROOT, "initial"))
        /\ started' = started + 1
        /\ ret' = "True"
        /\ UNCHANGED <<session_info, _ever_loaded_ok, _root_handle,
                       _current_path, _history, _history_index,
                       _pending_nav_target, _pending_nav_mode, file_tree,
                       swaps>>

\* FileExplorer._start_loader_for_path, called with the pending navigation
\* already recorded
_start_loader_for_path(target_path, mode) ==
    IF _root_handle = "None" THEN
        UNCHANGED <<_loading, workers, started>>
    ELSE
        /\ started < MaxLoads
        /\ Len(workers) < MaxWorkers
        /\ _loading' = TRUE
        /\ workers' = start_worker(NewWorker("nav", target_path, mode))
        /\ started' = started + 1

\* a _navigate_to that loads even when the target is the current path
_navigate_to_always(target_path, mode) ==
    LET t == _normalize_cloud_path(target_path) IN
    IF ~is_cloud(session_info) THEN
        UNCHANGED vars
    ELSE
        /\ _pending_nav_target' = Some(t)
        /\ _pending_nav_mode' = mode
        /\ _start_loader_for_path(t, mode)
        /\ UNCHANGED <<session_info, _ever_loaded_ok, _root_handle,
                       _current_path, _history, _history_index, file_tree,
                       ret, swaps>>

\* FileExplorer._navigate_to
_navigate_to(target_path, mode) ==
    LET t == _normalize_cloud_path(target_path) IN
    IF ~is_cloud(session_info) \/ (t = _current_path /\ mode = "push") THEN
        UNCHANGED vars
    ELSE
        /\ _pending_nav_target' = Some(t)
        /\ _pending_nav_mode' = mode
        /\ _start_loader_for_path(t, mode)
        /\ UNCHANGED <<session_info, _ever_loaded_ok, _root_handle,
                       _current_path, _history, _history_index, file_tree,
                       ret, swaps>>

\* FileExplorer.go_back
go_back ==
    IF ~can_go_back THEN
        UNCHANGED vars
    ELSE
        LET target == _history[(_history_index - 1) + 1] IN
        /\ _pending_nav_target' = Some(target)
        /\ _pending_nav_mode' = "back"
        /\ _start_loader_for_path(target, "back")
        /\ UNCHANGED <<session_info, _ever_loaded_ok, _root_handle,
                       _current_path, _history, _history_index, file_tree,
                       ret, swaps>>

\* FileExplorer.go_forward
go_forward ==
    IF ~can_go_forward THEN
        UNCHANGED vars
    ELSE
        LET target == _history[(_history_index + 1) + 1] IN
        /\ _pending_nav_target' = Some(target)
        /\ _pending_nav_mode' = "forward"
        /\ _start_loader_for_path(target, "forward")
        /\ UNCHANGED <<session_info, _ever_loaded_ok, _root_handle,
                       _current_path, _history, _history_index, file_tree,
                       ret, swaps>>

\* a push navigation: _navigate_to(raw, "push"), as issued by
\* on_item_double_clicked
Push(raw) == _navigate_to(raw, "push")

\* a reload: _navigate_to(history[cursor], "reload")
Reload ==
    /\ 0 <= _history_index
    /\ _history_index < Len(_history)
    /\ _navigate_to(_history[_history_index + 1], "reload")

\* the caller replaces the descriptor (Explorer: self.explorer.session_info = ...)
SetSessionInfo(s) ==
    /\ swaps < MaxSwaps
    /\ session_info' = s
    /\ swaps' = swaps + 1
    /\ UNCHANGED <<_loading, _ever_loaded_ok, _root_handle, _current_path,
                   _history, _history_index, _pending_nav_target,
                   _pending_nav_mode, file_tree, workers, ret, started>>

-----------------------------------------------------------------------------
(* The worker thread *)

\* FileExplorer._fetch_files, run by a "full" worker: the descriptor is read
\* when the thread runs; connect or list may fail (ok = FALSE)
_fetch_files(w, ok) ==
    LET s == session_info IN
    IF not_connected(s) \/ ~ok THEN [w EXCEPT !.st = "error"]
    ELSE [w EXCEPT !.st = "finished", !.root = get_backend(s),
                   !.files = RemoteListing(ROOT)]

\* the closure fetch() of _start_loader_for_path, run by a "nav" worker
fetch(w, ok) ==
    IF ~ok THEN [w EXCEPT !.st = "error"]
    ELSE [w EXCEPT !.st = "finished", !.root = _root_handle,
                   !.files = RemoteListing(w.target)]

\* _LoaderWorker.run: call the fetch function, emit finished or error
WorkerRun(i, ok) ==
    /\ i \in 1..Len(workers)
    /\ workers[i].st = "running"
    /\ workers' = [workers EXCEPT
                     ![i] = IF workers[i].kind = "full"
                            THEN _fetch_files(workers[i], ok)
                            ELSE fetch(workers[i], ok)]
    /\ UNCHANGED <<session_info, _loading, _ever_loaded_ok, _root_handle,
                   _current_path, _history, _history_index,
                   _pending_nav_target, _pending_nav_mode, file_tree, ret,
                   started, swaps>>

-----------------------------------------------------------------------------
(* Slots run on the main thread *)

\* FileExplorer._on_load_finished
_on_load_finished(root, files) ==
    /\ _root_handle' = root
    /\ IF is_cloud(session_info)
       THEN /\ _current_path' = seed_path(session_info)
            /\ _history' = <<seed_path(session_info)>>
            /\ _history_index' = 0
       ELSE UNCHANGED <<_current_path, _history, _history_index>>
    /\ file_tree' = files
    /\ _ever_loaded_ok' = TRUE
    /\ _loading' = FALSE
    /\ UNCHANGED <<session_info, _pending_nav_target, _pending_nav_mode>>

\* the history after a committed push: entries after the cursor are dropped
push_history(t) ==
    Append(IF 0 <= _history_index /\ _history_index < Len(_history) - 1
           THEN SubSeq(_history, 1, _history_index + 1)
           ELSE _history, t)

Max(a, b) == IF a >= b THEN a ELSE b

Min(a, b) == IF a <= b THEN a ELSE b

\* FileExplorer._on_nav_load_finished
_on_nav_load_finished(root, files) ==
    LET pending_t == _pending_nav_target
        mode == IF _pending_nav_mode = "None" THEN "push" ELSE _pending_nav_mode
        t == _normalize_cloud_path(pending_t[1])
    IN
    /\ IF pending_t # None
       THEN /\ _current_path' = t
            /\ session_info' = [session_info EXCEPT !.current_path = Some(t)]
            /\ _history' = IF mode = "push" THEN push_history(t) ELSE _history
            /\ _history_index' =
                 CASE mode = "push" -> Len(push_history(t)) - 1
                   [] mode = "back" -> Max(0, _history_index - 1)
                   [] mode = "forward" ->
                        Min(Len(_history) - 1, _history_index + 1)
                   [] OTHER -> _history_index
       ELSE UNCHANGED <<_current_path, session_info, _history, _history_index>>
    /\ file_tree' = files
    /\ _pending_nav_target' = None
    /\ _pending_nav_mode' = "None"
    /\ _loading' = FALSE
    /\ UNCHANGED <<_ever_loaded_ok, _root_handle>>

\* FileExplorer._handle_load_error: report, clear the tree
_handle_load_error ==
    file_tree' = <<>>

\* FileExplorer._on_load_error
_on_load_error ==
    /\ _handle_load_error
    /\ _loading' = FALSE
    /\ UNCHANGED <<session_info, _ever_loaded_ok, _root_handle, _current_path,
                   _history, _history_index, _pending_nav_target,
                   _pending_nav_mode>>

\* a worker whose signal has been handled: its thread is quitting, only the
\* pair itself (and whether the explorer still refers to it) remains
Consumed(w) ==
    [kind |-> w.kind, target |-> ROOT, mode |-> "None", st |-> "delivered",
     root |-> "None", files |-> <<>>, ref |-> w.ref,
     req_history |-> <<>>, req_index |-> -1, req_path |-> ROOT]

\* the main thread runs the slot connected to the signal worker i emitted
Deliver(i) ==
    /\ i \in 1..Len(workers)
    /\ workers[i].st \in {"finished", "error"}
    /\ CASE workers[i].st = "error" -> _on_load_error
         [] workers[i].st = "finished" /\ workers[i].kind = "full" ->
              _on_load_finished(workers[i].root, workers[i].files)
         [] OTHER ->
              _on_nav_load_finished(workers[i].root, workers[i].files)
    /\ workers' = [workers EXCEPT ![i] = Consumed(workers[i])]
    /\ UNCHANGED <<ret, started, swaps>>

\* FileExplorer._cleanup_loader, the slot of the finished signal of the
\* thread of worker i: drops whatever self._loader_worker and
\* self._loader_thread refer to and resets _loading
_cleanup_loader(i) ==
    /\ i \in 1..Len(workers)
    /\ workers[i].st = "delivered"
    /\ workers' = RemoveAt([j \in 1..Len(workers) |->
                              [workers[j] EXCEPT !.ref = FALSE]], i)
    /\ _loading' = FALSE
    /\ UNCHANGED <<session_info, _ever_loaded_ok, _root_handle, _current_path,
                   _history, _history_index, _pending_nav_target,
                   _pending_nav_mode, file_tree, ret, started, swaps>>

-----------------------------------------------------------------------------
(* The WebDAV client: OwnCloudWebDAVClient (services/dav/client.py) *)

\* names in the raw listing of one directory
MaxEntries == 3

\* str.startswith, str.endswith, sub in s
startswith(s, p) == Len(p) <= Len(s) /\ SubSeq(s, 1, Len(p)) = p

endswith(s, x) == Len(x) <= Len(s) /\ SubSeq(s, Len(s) - Len(x) + 1,
    Len(s)) = x

contains(s, sub) ==
    \E i \in 0..(Len(s) - Len(sub)) : SubSeq(s, i + 1, i + Len(sub)) = sub

UPPERCASE == <<"A", "B", "C", "D", "E", "F", "G", "H", "I", "J", "K", "L",
    "M", "N", "O", "P", "Q", "R", "S", "T", "U", "V", "W", "X", "Y", "Z">>

LOWERCASE == <<"a", "b", "c", "d", "e", "f", "g", "h", "i", "j", "k", "l",
    "m", "n", "o", "p", "q", "r", "s", "t", "u", "v", "w", "x", "y", "z">>

\* str.lower
lower(s) ==
    [i \in 1..Len(s) |->
        IF \E k \in 1..Len(UPPERCASE) : UPPERCASE[k] = s[i]
        THEN LOWERCASE[CHOOSE k \in 1..Len(UPPERCASE) : UPPERCASE[k] = s[i]]
        ELSE s[i]]

DIGITS == <<"0", "1", "2", "3", "4", "5", "6", "7", "8", "9">>

\* the digits of s after the surrounding blanks and one sign are removed
int_digits(s) ==
    LET u == strip(s, WHITESPACE) IN
    IF u # <<>> /\ u[1] \in {"+", "-"} THEN Tail(u) ELSE u

\* int(s) does not raise ValueError
int_ok(s) ==
    /\ int_digits(s) # <<>>
    /\ \A i \in 1..Len(int_digits(s)) :
         \E k \in 1..Len(DIGITS) : DIGITS[k] = int_digits(s)[i]

RECURSIVE digits_value(_)
digits_value(d) ==
    IF d = <<>> THEN 0
    ELSE 10 * digits_value(SubSeq(d, 1, Len(d) - 1))
         + (CHOOSE k \in 1..Len(DIGITS) : DIGITS[k] = d[Len(d)]) - 1

\* int(s) for a string int_ok accepts
int(s) ==
    IF Head(strip(s, WHITESPACE)) = "-" THEN 0 - digits_value(int_digits(s))
    ELSE digits_value(int_digits(s))

\* a dict that keeps insertion order: a sequence of <<key, value>>
dict_get(d, k) ==
    IF \E i \in 1..Len(d) : d[i][1] = k
    THEN Some(d[CHOOSE i \in 1..Len(d) : d[i][1] = k][2])
    ELSE None

dict_set(d, k, v) ==
    IF \E i \in 1..Len(d) : d[i][1] = k
    THEN [i \in 1..Len(d) |-> IF d[i][1] = k THEN <<k, v>> ELSE d[i]]
    ELSE Append(d, <<k, v>>)

\* OwnCloudWebDAVClient._ensure_dir
_ensure_dir(path) ==
    IF path = <<>> \/ endswith(path, <<"/">>) THEN path ELSE path \o <<"/">>

\* _raise_mapped with the test of 404 ahead of the test of 403
_raise_mapped_404_first(action, msg) ==
    LET lower_msg == lower(msg)
        any(codes) == \E code \in codes : contains(lower_msg, code)
    IN
    IF any({<<" ", "4", "0", "1">>,
            <<"c", "o", "d", "e", " ", "4", "0", "1">>,
            <<"n", "o", "t", "a", "u", "t", "h", "e", "n", "t", "i", "c",
                "a", "t", "e", "d">>,
            <<"u", "n", "a", "u", "t", "h", "o", "r", "i", "z", "e", "d">>})
    THEN [type |-> "WebDAVAuthError",
          friendly |-> "Authentication failed (401)",
          action |-> action, cause |-> msg]
    ELSE IF any({<<" ", "4", "0", "4">>,
                 <<"c", "o", "d", "e", " ", "4", "0", "4">>,
                 <<"n", "o", "t", " ", "f", "o", "u", "n", "d">>})
    THEN [type |-> "WebDAVNotFoundError",
          friendly |-> "Resource not found (404)",
          action |-> action, cause |-> msg]
    ELSE IF any({<<" ", "4", "0", "3">>,
                 <<"c", "o", "d", "e", " ", "4", "0", "3">>,
                 <<"f", "o", "r", "b", "i", "d", "d", "e", "n">>})
    THEN [type |-> "WebDAVAuthError", friendly |-> "Access forbidden (403)",
          action |-> action, cause |-> msg]
    ELSE [type |-> "WebDAVConnectionError",
          friendly |-> "WebDAV error during",
          action |-> action, cause |-> msg]

\* OwnCloudWebDAVClient._raise_mapped: the exception it raises for the text
\* msg of the library's exception
_raise_mapped(action, msg) ==
    LET lower_msg == lower(msg)
        any(codes) == \E code \in codes : contains(lower_msg, code)
    IN
    IF any({<<" ", "4", "0", "1">>,
            <<"c", "o", "d", "e", " ", "4", "0", "1">>,
            <<"n", "o", "t", "a", "u", "t", "h", "e", "n", "t", "i", "c",
                "a", "t", "e", "d">>,
            <<"u", "n", "a", "u", "t", "h", "o", "r", "i", "z", "e", "d">>})
    THEN [type |-> "WebDAVAuthError",
          friendly |-> "Authentication failed (401)",
          action |-> action, cause |-> msg]
    ELSE IF any({<<" ", "4", "0", "3">>,
                 <<"c", "o", "d", "e", " ", "4", "0", "3">>,
                 <<"f", "o", "r", "b", "i", "d", "d", "e", "n">>})
    THEN [type |-> "WebDAVAuthError", friendly |-> "Access forbidden (403)",
          action |-> action, cause |-> msg]
    ELSE IF any({<<" ", "4", "0", "4">>,
                 <<"c", "o", "d", "e", " ", "4", "0", "4">>,
                 <<"n", "o", "t", " ", "f", "o", "u", "n", "d">>})
    THEN [type |-> "WebDAVNotFoundError",
          friendly |-> "Resource not found (404)",
          action |-> action, cause |-> msg]
    ELSE [type |-> "WebDAVConnectionError",
          friendly |-> "WebDAV error during",
          action |-> action, cause |-> msg]

\* the exception of the webdav3 library, as it leaves a call that does not
\* catch it
library_exception(msg) ==
    [type |-> "WebDavException", friendly |-> "", action |-> "",
        cause |-> msg]

\* list, lines 102-104: the names skipped and the path of a name
skipped(remote_dir, name) == name = <<>> \/ name = strip(remote_dir, {"/"})

full_path(remote_dir, name) ==
    IF ~startswith(name, remote_dir) THEN remote_dir \o name ELSE name

\* list, lines 105-112
bare_entry(remote_dir, name) ==
    [name |-> rstrip(name, {"/"}),
     remote_path |-> full_path(remote_dir, name),
     is_dir |-> endswith(full_path(remote_dir, name), <<"/">>),
     size |-> None,
     modified |-> None]

\* list, lines 99-115: results and info_indices after the loop over entries
RECURSIVE base_listing(_, _)
base_listing(remote_dir, entries) ==
    IF entries = <<>> THEN [results |-> <<>>, info_indices |-> <<>>]
    ELSE LET before == base_listing(remote_dir,
                                    SubSeq(entries, 1, Len(entries) - 1))
             name == entries[Len(entries)]
         IN IF skipped(remote_dir, name) THEN before
            ELSE [results |-> Append(before.results,
                                     bare_entry(remote_dir, name)),
                  info_indices |-> dict_set(before.info_indices,
                                            full_path(remote_dir, name),
                                            Len(before.results))]

\* list, lines 118-119
include_dirs ==
    LET fetch_dirs_env ==
            strip(IF environ.SIG_WEB_DAV_INFO_DIRECTORIES = None THEN <<"1">>
                  ELSE environ.SIG_WEB_DAV_INFO_DIRECTORIES[1], WHITESPACE)
    IN fetch_dirs_env \notin {<<"0">>, <<"f", "a", "l", "s", "e">>, <<"n",
        "o">>}

\* pool_size without the cap of 16
pool_size_uncapped ==
    LET max_workers_env == environ.SIG_WEB_DAV_INFO_WORKERS
        n == IF max_workers_env # None /\ max_workers_env[1] # <<>>
             THEN IF int_ok(max_workers_env[1]) THEN int(max_workers_env[1])
                  ELSE 8
             ELSE 8
    IN Max(1, n)

\* list, lines 123-129: the size of the pool
pool_size ==
    LET max_workers_env == environ.SIG_WEB_DAV_INFO_WORKERS
        n == IF max_workers_env # None /\ max_workers_env[1] # <<>>
             THEN IF int_ok(max_workers_env[1]) THEN int(max_workers_env[1])
                  ELSE 8
             ELSE 8
    IN Max(1, Min(16, n))

\* info_paths without the test of include_dirs
info_paths_all(indices, res) == [i \in 1..Len(indices) |-> indices[i][1]]

\* list, lines 142-146: the paths submitted to the pool
RECURSIVE info_paths(_, _)
info_paths(indices, res) ==
    IF indices = <<>> THEN <<>>
    ELSE LET p == indices[1][1]
             idx == indices[1][2]
         IN (IF include_dirs \/ ~res[idx + 1].is_dir THEN <<p>> ELSE <<>>)
            \o info_paths(Tail(indices), res)

\* what the server answers to client.info(path): the size as a string for a
\* file and as a number for a directory, the modification stamp (here the
\* path it belongs to) under the key the kind of resource uses
ServerInfo(path) ==
    IF endswith(path, <<"/">>)
    THEN [size |-> [t |-> "int", v |-> 4096], modified |-> Some(path),
          last_modified |-> None, mtime |-> None, updated_at |-> None,
          date |-> None]
    ELSE [size |-> [t |-> "str", v |-> <<DIGITS[Len(path) + 1]>>],
          modified |-> None, last_modified |-> Some(path), mtime |-> None,
          updated_at |-> None, date |-> None]

\* list, lines 158-165: size_val of a file
size_val(info) ==
    IF info.size.t = "int" THEN Some(info.size.v)
    ELSE IF info.size.t = "str" /\ int_ok(info.size.v)
    THEN Some(int(info.size.v))
    ELSE None

\* list, lines 166-174: the first of the keys that holds a value
modified_of(info) ==
    IF info.modified # None THEN info.modified
    ELSE IF info.last_modified # None THEN info.last_modified
    ELSE IF info.mtime # None THEN info.mtime
    ELSE IF info.updated_at # None THEN info.updated_at
    ELSE info.date

\* OwnCloudWebDAVClient.list up to the submission of the futures (lines
\* 87-147); a failure of client.list is mapped and raised
list ==
    /\ dav_pc = "call"
    /\ dav_op.op = "list"
    /\ LET remote_dir == _ensure_dir(dav_op.arg)
           base == base_listing(remote_dir, server.listing)
           paths == info_paths(base.info_indices, base.results)
       IN
       IF server.error # None THEN
           /\ raised' = Some(_raise_mapped("list directory", server.error[1]))
           /\ dav_pc' = "done"
           /\ UNCHANGED <<results, info_indices, max_workers, futures>>
       ELSE
           /\ results' = base.results
           /\ info_indices' = base.info_indices
           /\ IF base.info_indices # <<>>
              THEN /\ max_workers' = pool_size
                   /\ futures' = [k \in 1..Len(paths) |->
                                     [path |-> paths[k], st |-> "pending",
                                      info |-> None, err |-> FALSE]]
                   /\ dav_pc' = "pool"
              ELSE /\ dav_pc' = "done"
                   /\ UNCHANGED <<max_workers, futures>>
           /\ UNCHANGED raised
    /\ UNCHANGED <<client_calls, environ, server, dav_op, info_calls>>

\* a thread of the ThreadPoolExecutor takes the oldest pending future; the
\* pool has at most max_workers threads
pool_take(k) ==
    /\ dav_pc = "pool"
    /\ k \in 1..Len(futures)
    /\ futures[k].st = "pending"
    /\ \A j \in 1..(k - 1) : futures[j].st # "pending"
    /\ Cardinality({j \in 1..Len(futures) : futures[j].st = "running"})
         < max_workers
    /\ futures' = [futures EXCEPT ![k].st = "running"]
    /\ info_calls' = Append(info_calls, futures[k].path)
    /\ UNCHANGED <<client_calls, environ, server, dav_op, results, info_indices,
                   max_workers, raised, dav_pc>>

\* list._fetch(path) returns in its thread: the info, or the exception of
\* client.info
_fetch(k, ok) ==
    /\ dav_pc = "pool"
    /\ k \in 1..Len(futures)
    /\ futures[k].st = "running"
    /\ futures' = [futures EXCEPT
                     ![k] = [path |-> @.path, st |-> "finished",
                             info |-> IF ok THEN Some(ServerInfo(@.path))
                                      ELSE None,
                             err |-> ~ok]]
    /\ UNCHANGED <<client_calls, environ, server, dav_op, results, info_indices,
                   max_workers, info_calls, raised, dav_pc>>

\* as_completed where the exception of a failed info is raised again
as_completed_raising(k) ==
    /\ dav_pc = "pool"
    /\ k \in 1..Len(futures)
    /\ futures[k].st = "finished"
    /\ LET path == futures[k].path
           idx == dict_get(info_indices, path)
       IN
       IF futures[k].err THEN
           /\ raised' = Some(library_exception(path))
           /\ dav_pc' = "done"
           /\ UNCHANGED results
       ELSE
           /\ LET info == futures[k].info[1]
                  e == results[idx[1] + 1]
              IN results' =
                   [results EXCEPT
                      ![idx[1] + 1] =
                         [e EXCEPT !.size = IF ~e.is_dir THEN size_val(info)
                                            ELSE @,
                                   !.modified = modified_of(info)]]
           /\ UNCHANGED <<raised, dav_pc>>
    /\ futures' = [futures EXCEPT ![k].st = "consumed"]
    /\ UNCHANGED <<client_calls, environ, server, dav_op, info_indices,
                   max_workers,
                   info_calls>>

\* as_completed where the slot is the rank of the completion, not the index
\* recorded for the path
as_completed_by_arrival(k) ==
    /\ dav_pc = "pool"
    /\ k \in 1..Len(futures)
    /\ futures[k].st = "finished"
    /\ LET idx == Cardinality({j \in 1..Len(futures) :
                                 futures[j].st = "consumed"})
       IN
       IF futures[k].err THEN UNCHANGED results
       ELSE LET info == futures[k].info[1]
                e == results[idx + 1]
            IN results' =
                 [results EXCEPT
                    ![idx + 1] =
                       [e EXCEPT !.size = IF ~e.is_dir THEN size_val(info)
                                          ELSE @,
                                 !.modified = modified_of(info)]]
    /\ futures' = [futures EXCEPT ![k].st = "consumed"]
    /\ UNCHANGED <<client_calls, environ, server, dav_op, info_indices,
                   max_workers,
                   info_calls, raised, dav_pc>>

\* one iteration of the loop over as_completed(futures) (lines 148-178)
as_completed(k) ==
    /\ dav_pc = "pool"
    /\ k \in 1..Len(futures)
    /\ futures[k].st = "finished"
    /\ LET path == futures[k].path
           idx == dict_get(info_indices, path)
       IN
       IF idx = None \/ futures[k].err THEN UNCHANGED results
       ELSE LET info == futures[k].info[1]
                e == results[idx[1] + 1]
            IN results' =
                 [results EXCEPT
                    ![idx[1] + 1] =
                       [e EXCEPT !.size = IF ~e.is_dir THEN size_val(info)
                                          ELSE @,
                                 !.modified = modified_of(info)]]
    /\ futures' = [futures EXCEPT ![k].st = "consumed"]
    /\ UNCHANGED <<client_calls, environ, server, dav_op, info_indices,
                   max_workers,
                   info_calls, raised, dav_pc>>

\* list returns results (line 179) when every future has been handled
list_return ==
    /\ dav_pc = "pool"
    /\ \A k \in 1..Len(futures) : futures[k].st = "consumed"
    /\ dav_pc' = "done"
    /\ UNCHANGED <<client_calls, environ, server, dav_op, results, info_indices,
                   max_workers, futures, info_calls, raised>>

\* OwnCloudWebDAVClient.download: client.download_sync is not wrapped
download ==
    /\ dav_pc = "call"
    /\ dav_op.op = "download"
    /\ raised' = IF server.error # None
                 THEN Some(library_exception(server.error[1])) ELSE None
    /\ dav_pc' = "done"
    /\ UNCHANGED <<client_calls, environ, server, dav_op, results,
                   info_indices, max_workers, futures, info_calls>>

\* str.split(sep) for a separator of one character
RECURSIVE split(_, _)
split(s, sep) ==
    IF \A i \in 1..Len(s) : s[i] # sep THEN <<s>>
    ELSE LET i == CHOOSE k \in 1..Len(s) :
                     s[k] = sep /\ \A j \in 1..(k - 1) : s[j] # sep
         IN <<SubSeq(s, 1, i - 1)>> \o split(SubSeq(s, i + 1, Len(s)), sep)

\* sep.join(parts)
RECURSIVE join(_, _)
join(sep, parts) ==
    IF parts = <<>> THEN <<>>
    ELSE IF Len(parts) = 1 THEN parts[1]
    ELSE parts[1] \o <<sep>> \o join(sep, Tail(parts))

\* OwnCloudWebDAVClient.mkdir: one MKCOL for the collection path; refused
\* is the set of collection paths for which the server fails the request
mkdir(remote_dir, refused) ==
    LET p == _ensure_dir(remote_dir)
    IN [op |-> "mkdir", path |-> p, ok |-> p \notin refused]

\* the loop of makedirs from the prefix cur over the remaining parts, where
\* a failure of mkdir ends the loop and leaves makedirs
RECURSIVE makedirs_loop_raising(_, _, _)
makedirs_loop_raising(cur, parts, refused) ==
    IF parts = <<>> THEN [calls |-> <<>>, raised |-> FALSE]
    ELSE LET nxt == IF cur # <<>> THEN cur \o <<"/">> \o parts[1]
                    ELSE parts[1]
             m == mkdir(nxt, refused)
             rest == makedirs_loop_raising(nxt, Tail(parts), refused)
         IN IF ~m.ok THEN [calls |-> <<m>>, raised |-> TRUE]
            ELSE [calls |-> <<m>> \o rest.calls, raised |-> rest.raised]

\* the loop of makedirs (lines 240-245) from the prefix cur over the
\* remaining parts: a failure of mkdir is caught and the loop goes on
RECURSIVE makedirs_loop(_, _, _)
makedirs_loop(cur, parts, refused) ==
    IF parts = <<>> THEN [calls |-> <<>>, raised |-> FALSE]
    ELSE LET nxt == IF cur # <<>> THEN cur \o <<"/">> \o parts[1]
                    ELSE parts[1]
             m == mkdir(nxt, refused)
             rest == makedirs_loop(nxt, Tail(parts), refused)
         IN [calls |-> <<m>> \o rest.calls, raised |-> rest.raised]

\* OwnCloudWebDAVClient.makedirs: the calls of client.mkdir it makes and
\* whether an exception leaves it
makedirs(remote_dir, refused) ==
    LET parts == SelectSeq(split(strip(remote_dir, {"/"}), "/"),
                           LAMBDA p : p # <<>>)
    IN makedirs_loop(<<>>, parts, refused)

\* OwnCloudWebDAVClient.upload: makedirs(parent) when the remote path has a
\* parent, then client.upload_sync, which is not wrapped
upload(refused) ==
    /\ dav_pc = "call"
    /\ dav_op.op = "upload"
    /\ LET remote_path == dav_op.arg
           parts == split(remote_path, "/")
           parent == join("/", SubSeq(parts, 1, Len(parts) - 1))
           made == IF parent # <<>> THEN makedirs(parent, refused)
                   ELSE [calls |-> <<>>, raised |-> FALSE]
       IN
       /\ refused \subseteq {c.path : c \in {made.calls[i] :
                                                i \in 1..Len(made.calls)}}
       /\ IF made.raised
          THEN /\ client_calls' = made.calls
               /\ raised' = Some(library_exception(<<"m", "k", "c", "o",
                                                      "l">>))
          ELSE /\ client_calls' = made.calls \o
                      <<[op |-> "upload_sync", path |-> remote_path,
                         ok |-> server.error = None]>>
               /\ raised' = IF server.error # None
                            THEN Some(library_exception(server.error[1]))
                            ELSE None
    /\ dav_pc' = "done"
    /\ UNCHANGED <<environ, server, dav_op, results, info_indices,
                   max_workers, futures, info_calls>>

\* names a directory listing is drawn from: a file, directories, and a file
\* and a directory named as the directory that is listed
RawNames == {<<"f">>, <<"d">>, <<"d", "/">>, <<"g", "/">>}

\* the raw listings: names of one directory, each once
Listings ==
    {l \in UNION {[1..n -> RawNames] : n \in 0..MaxEntries} :
        /\ \A i, j \in 1..Len(l) : i # j => l[i] # l[j]
        /\ ~(\E i, j \in 1..Len(l) : l[i] = <<"d">> /\ l[j] = <<"d", "/">>)}

\* texts of the failures of the server
Messages ==
    {<<"c", "o", "d", "e", " ", "4", "0", "1">>,
     <<"N", "o", "t", "A", "u", "t", "h", "e", "n", "t", "i", "c", "a",
         "t", "e", "d">>,
     <<"U", "n", "a", "u", "t", "h", "o", "r", "i", "z", "e", "d">>,
     <<"H", "T", "T", "P", " ", "4", "0", "3", " ", "F", "o", "r", "b",
         "i", "d", "d", "e", "n">>,
     <<"4", "0", "4", " ", "N", "o", "t", " ", "F", "o", "u", "n", "d">>,
     <<"t", "i", "m", "e", "d", " ", "o", "u", "t">>,
     <<" ", "4", "0", "4", " ", "f", "o", "r", "b", "i", "d", "d", "e", "n">>,
     <<" ", "4", "0", "3", " ", "u", "n", "a", "u", "t", "h", "o", "r",
         "i", "z", "e", "d">>}

\* remote paths given to upload: without a parent, nested, rooted, and with
\* an empty component
UploadPaths ==
    {<<"f">>, <<"/", "f">>, <<"a", "/", "f">>, <<"a", "/", "b", "/", "f">>,
     <<"/", "a", "/", "b", "/", "c", "/", "f">>, <<"a", "/", "/", "f">>}

\* the collection paths the server may refuse to create
MkdirPaths ==
    {<<"a", "/">>, <<"a", "/", "b", "/">>,
     <<"a", "/", "b", "/", "c", "/">>}

Environs ==
    [SIG_WEB_DAV_INFO_DIRECTORIES : {None, Some(<<"0">>), Some(<<" ", "n",
        "o", " ">>)},
     SIG_WEB_DAV_INFO_WORKERS :
        {None, Some(<<"0">>), Some(<<"-", "3">>), Some(<<"2">>),
         Some(<<"9", "9">>), Some(<<"x">>)}]

\* no WebDAV call is made
DavOff ==
    /\ environ = [SIG_WEB_DAV_INFO_DIRECTORIES |-> None,
                  SIG_WEB_DAV_INFO_WORKERS |-> None]
    /\ server = [listing |-> <<>>, error |-> None]
    /\ dav_op = [op |-> "none", arg |-> <<>>]
    /\ results = <<>>
    /\ info_indices = <<>>
    /\ max_workers = 0
    /\ futures = <<>>
    /\ info_calls = <<>>
    /\ raised = None
    /\ client_calls = <<>>
    /\ dav_pc = "off"

-----------------------------------------------------------------------------
(* The share client: list_files_in_directory (services/smb/client.py) *)

\* records in the answer to one query_directory
MaxRecords == 3

\* bytes.decode("utf-16le", errors="strict"): the code units of an even
\* number of bytes, then the code points; <<>> stands for UnicodeDecodeError
code_units(b) == [i \in 1..(Len(b) \div 2) |-> b[2 * i - 1] + 256 * b[2 * i]]

high_surrogate(u) == 55296 <= u /\ u <= 56319

low_surrogate(u) == 56320 <= u /\ u <= 57343

RECURSIVE code_points(_)
code_points(u) ==
    IF u = <<>> THEN Some(<<>>)
    ELSE IF high_surrogate(u[1]) THEN
        IF Len(u) >= 2 /\ low_surrogate(u[2])
        THEN LET rest == code_points(SubSeq(u, 3, Len(u))) IN
             IF rest = None THEN None
             ELSE Some(<<65536 + (u[1] - 55296) * 1024 + (u[2] - 56320)>>
                       \o rest[1])
        ELSE None
    ELSE IF low_surrogate(u[1]) THEN None
    ELSE LET rest == code_points(Tail(u)) IN
         IF rest = None THEN None ELSE Some(<<u[1]>> \o rest[1])

decode_utf16le(b) ==
    IF Len(b) % 2 = 1 THEN None ELSE code_points(code_units(b))

\* the code points str.strip() removes (str.isspace)
SPACE_CHARS ==
    {9, 10, 11, 12, 13, 28, 29, 30, 31, 32, 133, 160, 5760, 8232, 8233,
     8239, 8287, 12288} \cup (8192..8202)

\* list_files_in_directory, lines 194-199: the names filtered out
filtered_out(name) ==
    \/ name \in {<<46>>, <<46, 46>>}
    \/ name = <<65279>>
    \/ \A i \in 1..Len(name) : name[i] \in SPACE_CHARS
    \/ \E i \in 1..Len(name) : name[i] < 32

\* list_files_in_directory, lines 202-219: size_val and is_dir of a record
record_size(entry) ==
    IF entry.end_of_file # None THEN entry.end_of_file[1] ELSE 0

record_is_dir(entry) ==
    IF entry.file_attributes # None
    THEN (entry.file_attributes[1] \div 16) % 2 = 1
    ELSE FALSE

\* list_files_in_directory, lines 222-230: the first time field present
modified_val(entry) ==
    IF entry.last_write_time # None THEN entry.last_write_time
    ELSE IF entry.change_time # None THEN entry.change_time
    ELSE entry.creation_time

\* Times are counted in units of 64,000,000,000: a record holding v stands
\* for the integer v * 64,000,000,000, and a moment is counted in units of
\* 6,400 seconds from the Unix epoch.  116444736000000000 is a multiple of
\* the unit, so the conversion of line 244 is exact.

\* val > 10_000_000_000_000 (line 242) holds exactly when v > 156
FILETIME_THRESHOLD == 156

\* 116444736000000000 (line 244)
EPOCH_AS_FILETIME == 1819449

\* a value read as Unix seconds is v * 64,000,000,000 seconds
UNIX_SECONDS_UNIT == 10000000

\* datetime.fromtimestamp raises outside the years 1..9999
MIN_TIMESTAMP == -9708687
MAX_TIMESTAMP == 39594109

\* datetime.fromtimestamp(t).strftime("%Y-%m-%d %H:%M:%S") in a zone of
\* constant offset: the text is ordered as the moment is, so the moment
\* stands for the text; <<>> when fromtimestamp raises
fromtimestamp(t) ==
    IF MIN_TIMESTAMP <= t /\ t <= MAX_TIMESTAMP THEN Some(t) ELSE None

\* list_files_in_directory, lines 235-250 and 258: a value above the
\* threshold is a FILETIME, any other value is Unix seconds; <<>> is the
\* text "" given when no time is present or the conversion raises
mod_str(entry) ==
    IF modified_val(entry) = None THEN None
    ELSE LET val == modified_val(entry)[1]
         IN IF val > FILETIME_THRESHOLD
            THEN fromtimestamp(val - EPOCH_AS_FILETIME)
            ELSE fromtimestamp(val * UNIX_SECONDS_UNIT)

\* one iteration of the for loop of list_files_in_directory (lines 170-263)
list_files_in_directory ==
    /\ smb_pc = "loop"
    /\ directory.status = "ok"
    /\ smb_next <= Len(directory.records)
    /\ LET entry == directory.records[smb_next]
           name == IF entry.file_name = None THEN None
                   ELSE decode_utf16le(entry.file_name[1])
       IN
       media' = IF name = None \/ filtered_out(name[1]) THEN media
                ELSE Append(media,
                            [name |-> name[1], path |-> name[1],
                             size |-> record_size(entry),
                             is_dir |-> record_is_dir(entry),
                             modified |-> mod_str(entry)])
    /\ smb_next' = smb_next + 1
    /\ UNCHANGED <<directory, smb_pc>>

\* list_files_in_directory returns media (line 268): after the last record,
\* or from the handler of SMBResponseException (lines 265-266)
list_files_in_directory_return ==
    /\ smb_pc = "loop"
    /\ directory.status = "error" \/ smb_next > Len(directory.records)
    /\ smb_pc' = "done"
    /\ UNCHANGED <<directory, media, smb_next>>

\* a record of FILE_DIRECTORY_INFORMATION
Record(file_name, end_of_file, file_attributes, last_write_time) ==
    [file_name |-> file_name, end_of_file |-> end_of_file,
     file_attributes |-> file_attributes,
     last_write_time |-> last_write_time, change_time |-> None,
     creation_time |-> None]

\* the records a server sends: ".", "..", a file "a", a directory "b" of
\* size 0, a directory "c" with a size, a file named " ", a lone byte-order
\* mark, a name with a tab, an odd number of bytes, a lone surrogate, an
\* empty name, a record without fields, a file with the name only, files
\* with a FILETIME of 1601, a FILETIME of 2026 and a time out of range
Records ==
    {Record(Some(<<46, 0>>), Some(0), Some(16), Some(1)),
     Record(Some(<<46, 0, 46, 0>>), Some(0), Some(16), Some(1)),
     Record(Some(<<97, 0>>), Some(5), Some(32), Some(2)),
     Record(Some(<<98, 0>>), Some(0), Some(16), Some(3)),
     Record(Some(<<99, 0>>), Some(4096), Some(16), None),
     Record(Some(<<32, 0>>), Some(1), Some(32), Some(2)),
     Record(Some(<<255, 254>>), Some(0), Some(32), None),
     Record(Some(<<97, 0, 9, 0>>), Some(1), Some(32), None),
     Record(Some(<<255, 254, 0>>), Some(1), Some(32), None),
     Record(Some(<<0, 216>>), Some(1), Some(32), None),
     Record(Some(<<>>), Some(0), Some(32), None),
     Record(None, None, None, None),
     Record(Some(<<100, 0>>), None, None, None),
     Record(Some(<<101, 0>>), Some(1), Some(32), Some(157)),
     Record(Some(<<102, 0>>), Some(1), Some(32), Some(2100000)),
     Record(Some(<<103, 0>>), Some(1), Some(32), Some(4))}

\* no share listing is made
SmbOff ==
    /\ directory = [records |-> <<>>, status |-> "ok"]
    /\ media = <<>>
    /\ smb_next = 1
    /\ smb_pc = "off"

-----------------------------------------------------------------------------
(* The share client: download_file and upload_file (services/smb/client.py) *)

\* chunks a server sends before the end of a file
MaxChunks == 2

\* download_file: chunk_size
chunk_size == 1024 * 1024

STATUS_END_OF_FILE ==
    <<"S", "T", "A", "T", "U", "S", "_", "E", "N", "D", "_", "O", "F",
      "_", "F", "I", "L", "E">>

\* the texts of SMBResponseException for the status 0xc0000011 and for
\* another status
EofByName == STATUS_END_OF_FILE

EofByCode ==
    <<"s", "t", "a", "t", "u", "s", " ", "0", "x", "C", "0", "0", "0",
      "0", "0", "1", "1">>

EofAsInTest ==
    <<"S", "T", "A", "T", "U", "S", "_", "E", "N", "D", "_", "O", "F",
      "_", "F", "I", "L", "E", ":", " ", "0", "x", "c", "0", "0", "0",
      "0", "0", "1", "1">>

AccessDenied ==
    <<"S", "T", "A", "T", "U", "S", "_", "A", "C", "C", "E", "S", "S",
      "_", "D", "E", "N", "I", "E", "D">>

\* the test of line 87 without its second half
is_end_of_file_by_name_only(msg) ==
    contains(msg, STATUS_END_OF_FILE)

\* the test of line 87: the exception text names the end-of-file status
is_end_of_file(msg) ==
    \/ contains(msg, STATUS_END_OF_FILE)
    \/ contains(lower(msg),
                <<"0", "x", "c", "0", "0", "0", "0", "0", "1", "1">>)

\* _get_tree_and_path: the path given to Open
_get_tree_and_path(remote_path) == strip(remote_path, {"\\", "/"})

\* the whole local path instead of its last component
Path_name_whole(local_path) == local_path

\* pathlib.Path(local_path).name
Path_name(local_path) ==
    LET parts == SelectSeq(split(local_path, "/"), LAMBDA p : p # <<>>)
    IN IF parts = <<>> THEN <<>> ELSE parts[Len(parts)]

SMBResponseException(msg) == [type |-> "SMBResponseException", msg |-> msg]

OSError == [type |-> "OSError", msg |-> <<>>]

\* download_file up to the with statement (lines 58-78): Open, create, the
\* parent directories and the destination opened for writing
download_file ==
    /\ xfer_pc = "call"
    /\ xfer_op.op = "download"
    /\ IF share_file.create # None THEN
           /\ file' = [name |-> Some(_get_tree_and_path(xfer_op.remote_path)),
                       state |-> "new"]
           /\ xfer_raised' = share_file.create
           /\ xfer_pc' = "finally"
           /\ UNCHANGED <<offset, f_out>>
       ELSE IF ~local_file.opens THEN
           /\ file' = [name |-> Some(_get_tree_and_path(xfer_op.remote_path)),
                       state |-> "open"]
           /\ xfer_raised' = Some(OSError)
           /\ xfer_pc' = "finally"
           /\ UNCHANGED <<offset, f_out>>
       ELSE
           /\ file' = [name |-> Some(_get_tree_and_path(xfer_op.remote_path)),
                       state |-> "open"]
           /\ offset' = 0
           /\ f_out' = Some(<<>>)
           /\ xfer_pc' = "read"
           /\ UNCHANGED xfer_raised
    /\ UNCHANGED <<xfer_op, share_file, local_file, read_calls, write_calls,
                   close_calls>>

\* the offset in the remote file at which the i-th answer of the server
\* starts: the length of the chunks before it
RECURSIVE start_of(_, _)
start_of(reads, i) ==
    IF i = 1 THEN 0 ELSE start_of(reads, i - 1) + Len(reads[i - 1].data)

\* file.read(offset, chunk_size, wait=True): the server answers with the
\* chunk of the file that starts at the offset asked for, and with what
\* ends the file at its length and beyond
file_read(off) ==
    LET reads == share_file.reads
        at == {i \in 1..(Len(reads) - 1) : start_of(reads, i) = off}
    IN IF at # {} THEN reads[CHOOSE i \in at : TRUE] ELSE reads[Len(reads)]

\* the reads after which a loop that does not end is cut off
MaxReads == MaxChunks + 2

\* one iteration of a loop that writes the chunk and leaves the offset
\* where it was
download_file_read_offset_kept ==
    /\ xfer_pc = "read"
    /\ Len(read_calls) < MaxReads
    /\ LET r == file_read(offset)
       IN
       /\ read_calls' = Append(read_calls, <<offset, chunk_size>>)
       /\ IF r.exc # None THEN
              IF /\ r.exc[1].type = "SMBResponseException"
                 /\ is_end_of_file(r.exc[1].msg)
              THEN /\ xfer_pc' = "finally"
                   /\ UNCHANGED <<offset, f_out, xfer_raised>>
              ELSE /\ xfer_raised' = r.exc
                   /\ xfer_pc' = "finally"
                   /\ UNCHANGED <<offset, f_out>>
          ELSE IF r.data = <<>> THEN
              /\ xfer_pc' = "finally"
              /\ UNCHANGED <<offset, f_out, xfer_raised>>
          ELSE IF Len(read_calls) >= local_file.writes THEN
              /\ xfer_raised' = Some(OSError)
              /\ xfer_pc' = "finally"
              /\ UNCHANGED <<offset, f_out>>
          ELSE
              /\ f_out' = Some(f_out[1] \o r.data)
              /\ UNCHANGED <<offset, xfer_raised, xfer_pc>>
    /\ UNCHANGED <<xfer_op, share_file, local_file, file, write_calls,
                   close_calls>>

\* one iteration of the loop in which no exception ends the transfer
download_file_read_swallowing ==
    /\ xfer_pc = "read"
    /\ LET r == file_read(offset)
       IN
       /\ read_calls' = Append(read_calls, <<offset, chunk_size>>)
       /\ IF r.exc # None \/ r.data = <<>> THEN
              /\ xfer_pc' = "finally"
              /\ UNCHANGED <<offset, f_out, xfer_raised>>
          ELSE IF Len(read_calls) >= local_file.writes THEN
              /\ xfer_raised' = Some(OSError)
              /\ xfer_pc' = "finally"
              /\ UNCHANGED <<offset, f_out>>
          ELSE
              /\ f_out' = Some(f_out[1] \o r.data)
              /\ offset' = offset + Len(r.data)
              /\ UNCHANGED <<xfer_raised, xfer_pc>>
    /\ UNCHANGED <<xfer_op, share_file, local_file, file, write_calls,
                   close_calls>>

\* one iteration of the loop of download_file (lines 79-94): a read at
\* offset, then the end of the loop, an exception, or a write of the chunk
download_file_read ==
    /\ xfer_pc = "read"
    /\ LET r == file_read(offset)
       IN
       /\ read_calls' = Append(read_calls, <<offset, chunk_size>>)
       /\ IF r.exc # None THEN
              IF /\ r.exc[1].type = "SMBResponseException"
                 /\ is_end_of_file(r.exc[1].msg)
              THEN /\ xfer_pc' = "finally"
                   /\ UNCHANGED <<offset, f_out, xfer_raised>>
              ELSE /\ xfer_raised' = r.exc
                   /\ xfer_pc' = "finally"
                   /\ UNCHANGED <<offset, f_out>>
          ELSE IF r.data = <<>> THEN
              /\ xfer_pc' = "finally"
              /\ UNCHANGED <<offset, f_out, xfer_raised>>
          ELSE IF Len(read_calls) >= local_file.writes THEN
              /\ xfer_raised' = Some(OSError)
              /\ xfer_pc' = "finally"
              /\ UNCHANGED <<offset, f_out>>
          ELSE
              /\ f_out' = Some(f_out[1] \o r.data)
              /\ offset' = offset + Len(r.data)
              /\ UNCHANGED <<xfer_raised, xfer_pc>>
    /\ UNCHANGED <<xfer_op, share_file, local_file, file, write_calls,
                   close_calls>>

\* the end of download_file without the finally clause
download_file_finally_no_close ==
    /\ xfer_pc = "finally"
    /\ xfer_pc' = "done"
    /\ UNCHANGED <<xfer_op, share_file, local_file, file, offset, f_out,
                   read_calls, write_calls, close_calls, xfer_raised>>

\* the finally clause of download_file (lines 99-103): file.close(), whose
\* own failure is dropped; then the return or the pending exception
download_file_finally ==
    /\ xfer_pc = "finally"
    /\ close_calls' = close_calls + 1
    /\ file' = [file EXCEPT !.state = IF @ = "open" /\ share_file.close = None
                                      THEN "closed" ELSE @]
    /\ xfer_pc' = "done"
    /\ UNCHANGED <<xfer_op, share_file, local_file, offset, f_out,
                   read_calls, write_calls, xfer_raised>>

\* upload_file (lines 106-127): the local file is read whole, the remote
\* file is created outside the try, written once and closed in the finally
upload_file ==
    /\ xfer_pc = "call"
    /\ xfer_op.op = "upload"
    /\ LET filename == _get_tree_and_path(Path_name(xfer_op.local_path))
       IN
       IF local_file.content = None THEN
           /\ xfer_raised' = Some(OSError)
           /\ UNCHANGED <<file, write_calls, close_calls>>
       ELSE IF share_file.create # None THEN
           /\ file' = [name |-> Some(filename), state |-> "new"]
           /\ xfer_raised' = share_file.create
           /\ UNCHANGED <<write_calls, close_calls>>
       ELSE
           /\ write_calls' = <<<<local_file.content[1], 0>>>>
           /\ close_calls' = close_calls + 1
           /\ file' = [name |-> Some(filename),
                       state |-> IF share_file.close = None THEN "closed"
                                 ELSE "open"]
           /\ xfer_raised' = IF share_file.close # None
                             THEN share_file.close
                             ELSE share_file.write
    /\ xfer_pc' = "done"
    /\ UNCHANGED <<xfer_op, share_file, local_file, offset, f_out,
                   read_calls>>

\* the chunks a read returns
Chunks == {<<1>>, <<2, 1>>}

\* what ends the reads of a file: an empty read, the end-of-file status
\* in its three texts, another status, another exception
ReadEnds ==
    {[data |-> <<>>, exc |-> None]}
    \cup {[data |-> <<>>, exc |-> Some(SMBResponseException(m))] :
             m \in {EofByName, EofByCode, EofAsInTest, AccessDenied}}
    \cup {[data |-> <<>>,
           exc |-> Some([type |-> "SMBConnectionClosed", msg |-> <<>>])]}

\* the answers of a server to the reads of one download
ReadScripts ==
    {[i \in 1..(Len(cs) + 1) |->
         IF i <= Len(cs) THEN [data |-> cs[i], exc |-> None] ELSE e] :
       cs \in UNION {[1..n -> Chunks] : n \in 0..MaxChunks}, e \in ReadEnds}

\* the failures of create, write and close
Failures == {None, Some(SMBResponseException(AccessDenied))}

\* no transfer is made
XferOff ==
    /\ xfer_op = [op |-> "none"]
    /\ share_file = [create |-> None, reads |-> <<>>, write |-> None,
                     close |-> None]
    /\ local_file = [opens |-> TRUE, writes |-> 0, content |-> None]
    /\ file = [name |-> None, state |-> "none"]
    /\ offset = 0
    /\ f_out = None
    /\ read_calls = <<>>
    /\ write_calls = <<>>
    /\ close_calls = 0
    /\ xfer_raised = None
    /\ xfer_pc = "off"

-----------------------------------------------------------------------------
(* connect_to_backend and _format_modified (components/file_tree_viewer.py), *)
(* get_backend and DAVBackend.connect (services/storage_interface.py)        *)

cloud == <<"c", "l", "o", "u", "d">>

local == <<"l", "o", "c", "a", "l">>

smb == <<"s", "m", "b">>

\* x or y for optional strings: x unless it is absent or empty
or(x, y) == IF x = None \/ x = Some(<<>>) THEN y ELSE x

\* storage_interface.get_backend as the viewer imports it (lines 116-122)
_get_backend(s) ==
    IF lower(or(s.storage, or(s.backend, Some(smb)))[1]) = cloud THEN "dav"
    ELSE "smb"

\* a connect that hands out the descriptor's current path
DAVBackend_connect_current_path(s) ==
    [client |-> "OwnCloudWebDAVClient",
     path |-> IF s.current_path = None THEN <<>> ELSE s.current_path[1]]

\* DAVBackend.connect (lines 64-70): (client, "")
DAVBackend_connect(s) ==
    [client |-> "OwnCloudWebDAVClient", path |-> <<>>]

\* SMBBackend.connect: the Open of the root of the share
SMBBackend_connect(s) == [client |-> "Open", path |-> <<>>]

\* connect_to_backend, lines 27-35: the storage mode of the descriptor, or
\* default_mode of credentials.json when the descriptor has none
storage_of(s, creds) ==
    LET storage == lower(strip(or(s.storage, Some(<<>>))[1], WHITESPACE))
    IN IF storage # <<>> THEN s
       ELSE IF creds = None THEN [s EXCEPT !.storage = Some(local)]
       ELSE [s EXCEPT !.storage =
               Some(lower(strip(or(creds[1].default_mode, Some(local))[1],
                                WHITESPACE)))]

\* connect_to_backend (lines 24-55): the backend chosen and its handle
connect_to_backend ==
    /\ call_pc = "call"
    /\ call.fn = "connect_to_backend"
    /\ LET s == storage_of(call.session_info, credentials)
           backend == _get_backend(s)
       IN returned' = [backend |-> backend,
                       handle |-> IF backend = "dav" THEN DAVBackend_connect(s)
                                  ELSE SMBBackend_connect(s)]
    /\ call_pc' = "done"
    /\ UNCHANGED <<call, credentials>>

\* str.isdigit: the decimal digits and the characters, such as a
\* superscript, that are digits without being decimal
SUPERSCRIPT_TWO == "^2"

isdigit(s) ==
    /\ s # <<>>
    /\ \A i \in 1..Len(s) :
         \/ \E k \in 1..Len(DIGITS) : DIGITS[k] = s[i]
         \/ s[i] = SUPERSCRIPT_TWO

\* str.replace("Z", "+00:00")
replace_Z(s) ==
    IF s = <<>> THEN <<>>
    ELSE LET F[i \in 0..Len(s)] ==
                 IF i = 0 THEN <<>>
                 ELSE F[i - 1] \o (IF s[i] = "Z"
                                   THEN <<"+", "0", "0", ":", "0", "0">>
                                   ELSE <<s[i]>>)
         IN F[Len(s)]

all_digits(s) ==
    \A i \in 1..Len(s) : \E k \in 1..Len(DIGITS) : DIGITS[k] = s[i]

is_leap(y) == (y % 4 = 0 /\ y % 100 # 0) \/ y % 400 = 0

days_in_month(y, m) ==
    IF m = 2 THEN (IF is_leap(y) THEN 29 ELSE 28)
    ELSE IF m \in {4, 6, 9, 11} THEN 30 ELSE 31

\* the days from 1970-01-01 to the date
days_from_civil(y, m, d) ==
    LET yy == IF m <= 2 THEN y - 1 ELSE y
        era == yy \div 400
        yoe == yy - era * 400
        mp == IF m > 2 THEN m - 3 ELSE m + 9
        doy == (153 * mp + 2) \div 5 + d - 1
        doe == yoe * 365 + yoe \div 4 - yoe \div 100 + doy
    IN era * 146097 + doe - 719468

\* datetime.fromisoformat for YYYY-MM-DD, optionally followed by THH:MM:SS
\* and by the offset +00:00: the minute of the moment, or <<>> when it
\* raises ValueError
fromisoformat(iso) ==
    LET n == Len(iso)
        date_ok == /\ n >= 10
                   /\ all_digits(SubSeq(iso, 1, 4))
                   /\ iso[5] = "-"
                   /\ all_digits(SubSeq(iso, 6, 7))
                   /\ iso[8] = "-"
                   /\ all_digits(SubSeq(iso, 9, 10))
        y == digits_value(SubSeq(iso, 1, 4))
        m == digits_value(SubSeq(iso, 6, 7))
        d == digits_value(SubSeq(iso, 9, 10))
        time_ok == /\ n >= 19
                   /\ iso[11] \in {"T", " "}
                   /\ all_digits(SubSeq(iso, 12, 13))
                   /\ iso[14] = ":"
                   /\ all_digits(SubSeq(iso, 15, 16))
                   /\ iso[17] = ":"
                   /\ all_digits(SubSeq(iso, 18, 19))
        hh == digits_value(SubSeq(iso, 12, 13))
        mi == digits_value(SubSeq(iso, 15, 16))
        ss == digits_value(SubSeq(iso, 18, 19))
        utc == <<"+", "0", "0", ":", "0", "0">>
    IN IF ~date_ok \/ y < 1 \/ m < 1 \/ m > 12 \/ d < 1
          \/ d > days_in_month(y, m)
       THEN None
       ELSE IF n = 10 THEN Some(days_from_civil(y, m, d) * 1440)
       ELSE IF /\ time_ok
               /\ hh < 24 /\ mi < 60 /\ ss < 60
               /\ (n = 19 \/ SubSeq(iso, 20, n) = utc)
       THEN Some(days_from_civil(y, m, d) * 1440 + hh * 60 + mi)
       ELSE None

\* what _format_modified returns: "", the text of a minute, or a text
NoValue == [kind |-> "none"]
Formatted(minute) == [kind |-> "formatted", minute |-> minute]
Text(s) == IF s = <<>> THEN NoValue ELSE [kind |-> "text", text |-> s]

\* the numeric branch of _format_modified (lines 542-548) for seconds below
\* the threshold of milliseconds, in a zone of offset 0
format_number(ts) == Formatted(ts \div 60)

\* the string branch of _format_modified (lines 550-565): a digit-only
\* text is formatted as a number (int raising gives ""), a text that
\* parses as ISO-8601 is formatted, any other text is returned stripped
format_string(val) ==
    LET s == strip(val, WHITESPACE)
    IN IF isdigit(s) THEN
           (IF all_digits(s) THEN format_number(digits_value(s))
            ELSE NoValue)
       ELSE IF fromisoformat(replace_Z(s)) # None
       THEN Formatted(fromisoformat(replace_Z(s))[1])
       ELSE Text(s)

\* _format_modified (lines 537-567)
_format_modified ==
    /\ call_pc = "call"
    /\ call.fn = "_format_modified"
    /\ returned' = CASE call.val.type = "NoneType" -> NoValue
                     [] call.val.type = "int" -> format_number(call.val.v)
                     [] call.val.type = "str" -> format_string(call.val.v)
                     [] OTHER -> NoValue
    /\ call_pc' = "done"
    /\ UNCHANGED <<call, credentials>>

\* str(e): the text of an exception. A mapped WebDAV error carries the
\* friendly text built from the action and, for the fallback only, the
\* cause; a RuntimeError or a library exception carries its message
str(e) ==
    IF "msg" \in DOMAIN e THEN e.msg
    ELSE IF e.type = "WebDAVConnectionError"
    THEN <<e.friendly, e.action, e.cause>>
    ELSE <<e.friendly, e.action>>

\* a re-raise that keeps neither the kind nor the text
DAVBackend_list_files_textless(e) ==
    IF e.type = "WebDAVAuthError"
    THEN [type |-> "RuntimeError", msg |-> <<>>]
    ELSE e

\* DAVBackend.list_files (lines 72-77): the exception that leaves it when
\* client.list raises e
DAVBackend_list_files(e) ==
    IF e.type = "WebDAVAuthError"
    THEN [type |-> "RuntimeError", msg |-> str(e)]
    ELSE e

\* _LoaderWorker.run (lines 80-93): the fetch function connects and lists;
\* the worker emits finished(root, files), or error(str(e)) for whatever
\* exception e left the fetch function
run ==
    /\ call_pc = "call"
    /\ call.fn = "run"
    /\ returned' =
         IF call.exc = None
         THEN [signal |-> "finished", backend |-> call.backend]
         ELSE LET e == IF call.backend = "dav" /\ call.stage = "list"
                       THEN DAVBackend_list_files(call.exc[1])
                       ELSE call.exc[1]
              IN [signal |-> "error",
                  arg |-> [type |-> "str", value |-> str(e)],
                  left |-> e.type]
    /\ call_pc' = "done"
    /\ UNCHANGED <<call, credentials>>

\* the exceptions an adapter raises: the cloud client's mapped errors on
\* list, the share library's exceptions on connect
AdapterErrors ==
    [backend : {"dav"}, stage : {"list"},
     exc : {Some(_raise_mapped("list directory", m)) : m \in Messages}]
    \cup [backend : {"smb"}, stage : {"connect"},
          exc : {Some([type |-> "SMBResponseException", msg |-> m]) :
                   m \in {AccessDenied, EofByName}}]
    \cup [backend : {"dav", "smb"}, stage : {"list"}, exc : {None}]

\* the loads a worker runs
WorkerRuns ==
    {[fn |-> "run", backend |-> a.backend, stage |-> a.stage,
      exc |-> a.exc] : a \in AdapterErrors}

\* _fetch_files and load_files_async, the storage mode their pre-connect
\* validation assumes: (s.get("storage") or "local").strip().lower()
_fetch_files_storage(s) ==
    lower(strip(or(s.storage, Some(local))[1], WHITESPACE))

\* a call of FileExplorer._normalize_cloud_path (lines 770-774) with the
\* text p: the text it returns
normalize ==
    /\ call_pc = "call"
    /\ call.fn = "_normalize_cloud_path"
    /\ returned' = [kind |-> "path", value |-> _normalize_cloud_path(call.p)]
    /\ call_pc' = "done"
    /\ UNCHANGED <<call, credentials>>

\* the length of the texts given to _normalize_cloud_path
MaxPathLen == 3

\* the characters of those texts: both slashes, the space, a name character
PathChars == {"/", "\\", " ", "a"}

\* the texts given to _normalize_cloud_path
PathTexts == UNION {[1..n -> PathChars] : n \in 0..MaxPathLen}

\* the storage modes of a descriptor: absent, empty, cloud in three
\* spellings, two other modes
StorageModes ==
    {None, Some(<<>>), Some(cloud), Some(<<"C", "L", "O", "U", "D">>),
     Some(<<" ", "C", "l", "o", "u", "d", " ">>),
     Some(smb), Some(local), Some(<<"x">>)}

\* the descriptors given to connect_to_backend
SessionInfos ==
    [storage : StorageModes, backend : {None, Some(cloud)},
     current_path : {None, Some(PathA)}]

\* credentials.json: unreadable, without default_mode, or with one
CredentialFiles ==
    {None} \cup {Some([default_mode |-> m]) :
                   m \in {None, Some(cloud), Some(local)}}

\* the values given to _format_modified
ModifiedValues ==
    {[type |-> "NoneType"], [type |-> "list"]}
    \cup [type : {"int"}, v : {0, 90, 1735689600}]
    \cup [type : {"str"},
          v : {<<>>, <<" ">>, <<"9", "0">>, <<" ", "9", "0", " ">>,
               <<SUPERSCRIPT_TWO>>,
               <<"2", "0", "2", "5", "-", "0", "1", "-", "0", "1", "T", "0",
                 "0", ":", "0", "0", ":", "0", "0", "Z">>,
               <<"2", "0", "2", "5", "-", "0", "1", "-", "0", "1">>,
               <<"2", "0", "2", "5", "-", "0", "1", "-", "0", "2", " ", "1",
                 "0", ":", "0", "0", ":", "0", "0">>,
               <<"2", "0", "2", "5", "-", "0", "2", "-", "3", "0">>,
               <<"y", "e", "s", "t", "e", "r", "d", "a", "y">>,
               <<" ", "n", "/", "a", " ">>}]

\* no call is made
CallOff ==
    /\ call = [fn |-> "none"]
    /\ credentials = None
    /\ returned = [kind |-> "none"]
    /\ call_pc = "off"

-----------------------------------------------------------------------------
(* Specification *)

\* FileExplorer.__init__ followed by init_ui, which ends with load_files()
Init ==
    /\ session_info \in Descriptors
    /\ _ever_loaded_ok = FALSE
    /\ _root_handle = "None"
    /\ _current_path = ROOT
    /\ _history = <<>>
    /\ _history_index = -1
    /\ _pending_nav_target = None
    /\ _pending_nav_mode = "None"
    /\ file_tree = <<>>
    /\ swaps = 0
    /\ DavOff
    /\ SmbOff
    /\ XferOff
    /\ CallOff
    /\ IF not_connected(session_info)
       THEN _loading = FALSE /\ workers = <<>> /\ ret = "False" /\ started = 0
       ELSE /\ _loading = TRUE
            /\ workers = <<[kind |-> "full", target |-> ROOT,
                            mode |-> "initial", st |-> "running",
                            root |-> "None", files |-> <<>>, ref |-> TRUE,
                            req_history |-> <<>>, req_index |-> -1,
                            req_path |-> ROOT]>>
            /\ ret = "True"
            /\ started = 1

Next ==
    \/ load_files_async /\ UNCHANGED beside_loader
    \/ \E raw \in RawTargets : Push(raw) /\ UNCHANGED beside_loader
    \/ go_back /\ UNCHANGED beside_loader
    \/ go_forward /\ UNCHANGED beside_loader
    \/ Reload /\ UNCHANGED beside_loader
    \/ \E s \in Descriptors :
         SetSessionInfo(s) /\ UNCHANGED beside_loader
    \/ \E i \in 1..Len(workers), ok \in BOOLEAN :
         WorkerRun(i, ok) /\ UNCHANGED beside_loader
    \/ \E i \in 1..Len(workers) :
         Deliver(i) /\ UNCHANGED beside_loader
    \/ \E i \in 1..Len(workers) :
         _cleanup_loader(i) /\ UNCHANGED beside_loader

\* the explorer: its loader and its navigation
Spec == Init /\ [][Next]_vars

\* no explorer is running
LoaderOff ==
    /\ session_info = [storage |-> "cloud", creds |-> FALSE, share |-> FALSE,
                       current_path |-> None]
    /\ _loading = FALSE
    /\ _ever_loaded_ok = FALSE
    /\ _root_handle = "None"
    /\ _current_path = ROOT
    /\ _history = <<>>
    /\ _history_index = -1
    /\ _pending_nav_target = None
    /\ _pending_nav_mode = "None"
    /\ file_tree = <<>>
    /\ workers = <<>>
    /\ ret = "False"
    /\ started = 0
    /\ swaps = 0

\* one call of the WebDAV client: list of the root or of the directory "d"
\* under every environment, or a download or an upload
DavInit ==
    /\ LoaderOff
    /\ SmbOff
    /\ XferOff
    /\ CallOff
    /\ \/ /\ dav_op \in [op : {"list"}, arg : {<<>>, <<"d">>}]
          /\ environ \in Environs
          /\ server \in [listing : Listings, error : {None}]
                        \cup [listing : {<<>>},
                              error : {Some(m) : m \in Messages}]
       \/ /\ dav_op \in {[op |-> "download", arg |-> <<"f">>]}
                        \cup [op : {"upload"}, arg : UploadPaths]
          /\ environ = [SIG_WEB_DAV_INFO_DIRECTORIES |-> None,
                        SIG_WEB_DAV_INFO_WORKERS |-> None]
          /\ server \in [listing : {<<>>},
                         error : {None} \cup {Some(m) : m \in Messages}]
    /\ results = <<>>
    /\ info_indices = <<>>
    /\ max_workers = 0
    /\ futures = <<>>
    /\ info_calls = <<>>
    /\ raised = None
    /\ client_calls = <<>>
    /\ dav_pc = "call"

DavNext ==
    \/ list /\ UNCHANGED beside_dav
    \/ \E k \in 1..Len(futures) : pool_take(k) /\ UNCHANGED beside_dav
    \/ \E k \in 1..Len(futures), ok \in BOOLEAN :
         _fetch(k, ok) /\ UNCHANGED beside_dav
    \/ \E k \in 1..Len(futures) :
         as_completed(k) /\ UNCHANGED beside_dav
    \/ list_return /\ UNCHANGED beside_dav
    \/ download /\ UNCHANGED beside_dav
    \/ \E refused \in SUBSET MkdirPaths :
         upload(refused) /\ UNCHANGED beside_dav

DavSpec == DavInit /\ [][DavNext]_dav_vars

\* one listing of a share directory
SmbInit ==
    /\ LoaderOff
    /\ DavOff
    /\ XferOff
    /\ CallOff
    /\ directory \in
         [records : UNION {[1..n -> Records] : n \in 0..MaxRecords},
          status : {"ok"}]
         \cup [records : {<<>>}, status : {"error"}]
    /\ media = <<>>
    /\ smb_next = 1
    /\ smb_pc = "loop"

SmbNext ==
    \/ list_files_in_directory /\ UNCHANGED beside_smb
    \/ list_files_in_directory_return /\ UNCHANGED beside_smb

SmbSpec == SmbInit /\ [][SmbNext]_smb_vars

\* one transfer of the share client: a download under every script of
\* reads, or an upload
XferInit ==
    /\ LoaderOff
    /\ DavOff
    /\ SmbOff
    /\ CallOff
    /\ \/ /\ xfer_op \in [op : {"download"},
                          remote_path : {<<"f">>, <<"\\", "d", "\\", "f">>},
                          local_path : {<<"t", "/", "f">>}]
          /\ share_file \in [create : Failures, reads : ReadScripts,
                              write : {None}, close : Failures]
          /\ local_file \in [opens : BOOLEAN, writes : 0..MaxChunks,
                              content : {None}]
       \/ /\ xfer_op \in [op : {"upload"},
                          local_path : {<<"f">>, <<"/", "t", "/", "f">>,
                                        <<"t", "/", "g">>}]
          /\ share_file \in [create : Failures, reads : {<<>>},
                              write : Failures, close : Failures]
          /\ local_file \in [opens : {TRUE}, writes : {0},
                              content : {None, Some(<<>>), Some(<<1, 2>>)}]
    /\ file = [name |-> None, state |-> "none"]
    /\ offset = 0
    /\ f_out = None
    /\ read_calls = <<>>
    /\ write_calls = <<>>
    /\ close_calls = 0
    /\ xfer_raised = None
    /\ xfer_pc = "call"

XferNext ==
    \/ download_file /\ UNCHANGED beside_xfer
    \/ download_file_read /\ UNCHANGED beside_xfer
    \/ download_file_finally /\ UNCHANGED beside_xfer
    \/ upload_file /\ UNCHANGED beside_xfer

XferSpec == XferInit /\ [][XferNext]_xfer_vars

\* the transfers, run to their end: a call that has started is not left
\* suspended, as download_file and upload_file run on one thread
XferFairSpec == XferSpec /\ WF_xfer_vars(XferNext)

\* one call of connect_to_backend or of _format_modified
CallInit ==
    /\ LoaderOff
    /\ DavOff
    /\ SmbOff
    /\ XferOff
    /\ \/ /\ call \in [fn : {"connect_to_backend"},
                       session_info : SessionInfos]
          /\ credentials \in CredentialFiles
       \/ /\ call \in [fn : {"_format_modified"}, val : ModifiedValues]
          /\ credentials = None
       \/ /\ call \in WorkerRuns
          /\ credentials = None
       \/ /\ call \in [fn : {"_normalize_cloud_path"}, p : PathTexts]
          /\ credentials = None
    /\ returned = [kind |-> "none"]
    /\ call_pc = "call"

CallNext ==
    \/ connect_to_backend /\ UNCHANGED beside_call
    \/ _format_modified /\ UNCHANGED beside_call
    \/ run /\ UNCHANGED beside_call
    \/ normalize /\ UNCHANGED beside_call

CallSpec == CallInit /\ [][CallNext]_call_vars


-----------------------------------------------------------------------------
(* Steps named by the properties *)

\* the step delivers the completion of worker i
Delivered(i) ==
    /\ Len(workers') = Len(workers)
    /\ i \in 1..Len(workers)
    /\ workers[i].st \in {"finished", "error"}
    /\ workers'[i].st = "delivered"

\* the step starts a worker (the new pair is appended)
Started ==
    /\ Len(workers') = Len(workers) + 1
    /\ workers'[Len(workers')].st = "running"

StartedWorker == workers'[Len(workers')]

Running(kind) ==
    {i \in 1..Len(workers) : workers[i].kind = kind /\ workers[i].st = "running"}

Undelivered == {i \in 1..Len(workers) : InFlight(workers[i])}

-----------------------------------------------------------------------------
(* C1..C10: single flight, navigation history, load errors *)

\* C1: over any sequence of load requests at most one connect+list
\* (_fetch_files) execution is in flight on one instance.
C1_OneConnectListInFlight == Cardinality(Running("full")) <= 1

\* C2: the loader is single-flight: at most one loader worker of any kind
\* is in flight (started and its success or error not yet delivered).
C2_OneWorkerInFlight == Cardinality(Undelivered) <= 1

\* C3: whenever the history is non-empty, 0 <= cursor < len(history) and
\* history[cursor] is the current path.
C3_CursorNamesCurrentPath ==
    _history # <<>> =>
        /\ 0 <= _history_index
        /\ _history_index < Len(_history)
        /\ _history[_history_index + 1] = _current_path

\* C4: when the load of a push(path) succeeds in a state with history h and
\* cursor c, the new history is h[0..c] followed by the normalized path and
\* the cursor is its last index.
C4_PushTruncatesAndAppends ==
    [][\A i \in 1..Len(workers) :
         (Delivered(i) /\ workers[i].st = "finished" /\ workers[i].mode = "push")
         => /\ _history' = Append(SubSeq(_history, 1, _history_index + 1),
                                  workers[i].target)
            /\ _history_index' = Len(_history') - 1]_vars

\* C5: go_back starts no load and changes nothing at cursor 0; otherwise it
\* requests a load of history[cursor-1], and when that load succeeds the
\* cursor decreases by exactly 1 and the history is unchanged.
C5_BackDecrementsCursor ==
    [][/\ (go_back /\ _history_index = 0) => UNCHANGED vars
       /\ (Started /\ StartedWorker.mode = "back")
          => /\ _history_index > 0
             /\ StartedWorker.target = _history[_history_index]
       /\ \A i \in 1..Len(workers) :
            (Delivered(i) /\ workers[i].st = "finished"
                          /\ workers[i].mode = "back")
            => /\ _history_index' = _history_index - 1
               /\ _history' = _history]_vars

\* C6: go_forward starts no load and changes nothing at the last cursor;
\* otherwise it requests a load of history[cursor+1], and when that load
\* succeeds the cursor increases by exactly 1 and the history is unchanged.
C6_ForwardIncrementsCursor ==
    [][/\ (go_forward /\ _history_index = Len(_history) - 1) => UNCHANGED vars
       /\ (Started /\ StartedWorker.mode = "forward")
          => /\ _history_index < Len(_history) - 1
             /\ StartedWorker.target = _history[_history_index + 2]
       /\ \A i \in 1..Len(workers) :
            (Delivered(i) /\ workers[i].st = "finished"
                          /\ workers[i].mode = "forward")
            => /\ _history_index' = _history_index + 1
               /\ _history' = _history]_vars

\* C7: a reload that succeeds leaves the history and the cursor as they
\* were before the request.
C7_ReloadKeepsHistory ==
    [][\A i \in 1..Len(workers) :
         (Delivered(i) /\ workers[i].st = "finished"
                       /\ workers[i].mode = "reload")
         => /\ _history' = workers[i].req_history
            /\ _history_index' = workers[i].req_index]_vars

\* C8: when the load requested by push, back or forward fails, the history,
\* the cursor and the current path are what they were before the request.
C8_FailureCommitsNothing ==
    [][\A i \in 1..Len(workers) :
         (Delivered(i) /\ workers[i].st = "error"
                       /\ workers[i].mode \in {"push", "back", "forward"})
         => /\ _history' = workers[i].req_history
            /\ _history_index' = workers[i].req_index
            /\ _current_path' = workers[i].req_path]_vars

\* C9: once a load has succeeded, a failed later load leaves the displayed
\* entries unchanged.
C9_FailedLaterLoadKeepsListing ==
    [][\A i \in 1..Len(workers) :
         (Delivered(i) /\ workers[i].st = "error" /\ _ever_loaded_ok)
         => file_tree' = file_tree]_vars

\* C10: with a load in flight, load_files_async returns true and changes no
\* state, whatever the descriptor.
C10_LoadingCheckFirst ==
    [][(load_files_async /\ Undelivered # {})
       => /\ ret' = "True"
          /\ UNCHANGED <<session_info, _loading, _ever_loaded_ok,
                         _root_handle, _current_path, _history,
                         _history_index, _pending_nav_target,
                         _pending_nav_mode, file_tree, workers>>]_vars

\* C10 as amended: the validation comes first.  With _loading set,
\* load_files_async returns true and changes no state when the descriptor
\* passes the validation, and returns false, starting nothing and leaving
\* _loading set, when the descriptor lacks credentials (or server/share in
\* share mode).
C10_ValidationBeforeLoadingCheck ==
    [][(load_files_async /\ _loading)
       => IF not_connected(session_info)
          THEN /\ ret' = "False"
               /\ UNCHANGED <<session_info, _loading, _ever_loaded_ok,
                              _root_handle, _current_path, _history,
                              _history_index, _pending_nav_target,
                              _pending_nav_mode, workers>>
          ELSE /\ ret' = "True"
               /\ UNCHANGED <<session_info, _loading, _ever_loaded_ok,
                              _root_handle, _current_path, _history,
                              _history_index, _pending_nav_target,
                              _pending_nav_mode, file_tree, workers>>]_vars

\* load_files_async has returned false while the first load of the instance
\* was still running (no handle yet, so no navigation worker can exist)
C10_Witness ==
    /\ _loading
    /\ not_connected(session_info)
    /\ ret = "False"
    /\ _root_handle = "None"
    /\ Running("full") # {}

-----------------------------------------------------------------------------
(* C11, C12: the pre-connect validation and the completion of a load *)

\* C11: with no load in flight and a descriptor that lacks username or
\* password, or server or share in share mode, load_files_async returns
\* false, starts no worker (so no connect and no list runs) and the loader
\* stays idle.
C11_NotConnectedStartsNothing ==
    [][(load_files_async /\ not_connected(session_info) /\ Undelivered = {})
       => /\ ret' = "False"
          /\ workers' = workers
          /\ started' = started
          /\ ~_loading
          /\ ~_loading']_vars

\* after a successful load the descriptor was replaced by one that fails
\* the validation and load_files_async returned false with nothing in
\* flight; the listing is still displayed
C11_Witness ==
    /\ _ever_loaded_ok
    /\ not_connected(session_info)
    /\ ret = "False"
    /\ ~_loading
    /\ workers = <<>>
    /\ file_tree # <<>>

\* C12: every started load delivers exactly one completion, and the loader
\* becomes idle after that delivery and not before it: while a load is
\* started and its completion is not yet delivered, _loading is set.
C12_LoadingUntilDelivery == Undelivered # {} => _loading

-----------------------------------------------------------------------------
(* C13..C16: the metadata pass of the cloud list *)

\* the list call has returned its results
ListReturned == dav_pc = "done" /\ dav_op.op = "list" /\ server.error = None

\* the names of the raw listing that make an entry, in the order of the
\* raw listing
ListedNames ==
    LET kept(name) == ~skipped(_ensure_dir(dav_op.arg), name)
    IN SelectSeq(server.listing, kept)

\* the future of path p, if one was submitted
FutureOf(p) == {k \in 1..Len(futures) : futures[k].path = p}

\* the step handles the completed future k
Handled(k) ==
    /\ k \in 1..Len(futures)
    /\ futures[k].st = "finished"
    /\ futures'[k].st = "consumed"

\* C13: an info() that fails for one entry neither fails the list nor
\* removes or alters an entry: handling the failed future leaves results as
\* they are and raises nothing, and list returns every listed entry, the
\* failed ones with size and modified unset, and no exception.
C13_InfoFailureIsolated ==
    /\ [][\A k \in 1..Len(futures) :
            (Handled(k) /\ futures[k].err)
            => /\ results' = results
               /\ raised' = None
               /\ dav_pc' = "pool"]_dav_vars
    /\ [](ListReturned
          => /\ raised = None
             /\ Len(results) = Len(ListedNames)
             /\ \A i \in 1..Len(results) :
                  /\ results[i].name = rstrip(ListedNames[i], {"/"})
                  /\ (\E k \in FutureOf(results[i].remote_path) :
                        futures[k].err)
                     => /\ results[i].size = None
                        /\ results[i].modified = None)

\* of three entries the info of the second failed and the others carry
\* their metadata
C13_Witness ==
    /\ ListReturned
    /\ Len(results) = 3
    /\ Len(futures) = 3
    /\ futures[2].err
    /\ results[2].modified = None
    /\ results[1].modified # None
    /\ results[3].modified # None

\* C14: whatever the order in which the fetches complete, the entries are
\* returned in the order of the raw listing and each entry carries the
\* metadata fetched for its own remote path (the server stamps the info of
\* a path with that path and, for a file, with a size made from it).
C14_OrderAndSlotKeptByPath ==
    /\ dav_pc \in {"pool", "done"}
       => \A i \in 1..Len(results) :
            /\ results[i].modified \in {None, Some(results[i].remote_path)}
            /\ results[i].size
                 \in {None, Some(Len(results[i].remote_path))}
    /\ ListReturned
       => /\ Len(results) = Len(ListedNames)
          /\ \A i \in 1..Len(results) :
               /\ results[i].name = rstrip(ListedNames[i], {"/"})
               /\ results[i].is_dir = endswith(ListedNames[i], <<"/">>)
               /\ \A k \in FutureOf(results[i].remote_path) :
                    ~futures[k].err
                    => /\ results[i].modified = Some(results[i].remote_path)
                       /\ ~results[i].is_dir
                          => results[i].size
                               = Some(Len(results[i].remote_path))

\* three fetches ran at once, the info of the third entry was handled
\* first, and the list has returned with every entry enriched
C14_Witness ==
    /\ ListReturned
    /\ Len(results) = 3
    /\ Len(info_calls) = 3
    /\ max_workers >= 3
    /\ \A i \in 1..3 : results[i].modified = Some(results[i].remote_path)

\* C15: the pool has max(1, min(16, n)) workers for a configured integer n
\* and 8 when SIG_WEB_DAV_INFO_WORKERS is unset or not an integer: between
\* 1 and 16 in every case, and no more fetches than that run at once.
C15_WorkersClamped ==
    dav_pc = "pool"
    => /\ 1 <= max_workers
       /\ max_workers <= 16
       /\ LET e == environ.SIG_WEB_DAV_INFO_WORKERS IN
          max_workers = IF e = None \/ ~int_ok(e[1]) THEN 8
                        ELSE IF int(e[1]) < 1 THEN 1
                        ELSE IF int(e[1]) > 16 THEN 16
                        ELSE int(e[1])
       /\ Cardinality({k \in 1..Len(futures) : futures[k].st = "running"})
            <= max_workers

\* configured with -3 the pool has one worker; three fetches were made
C15_Witness ==
    /\ dav_pc = "pool"
    /\ environ.SIG_WEB_DAV_INFO_WORKERS = Some(<<"-", "3">>)
    /\ max_workers = 1
    /\ Len(info_calls) = 3

\* C16: info() is requested for an entry exactly when the entry is a file
\* or directory metadata is enabled, and then exactly once: with the toggle
\* disabled no directory is queried and every directory is still returned.
C16_InfoOnlyForSelectedEntries ==
    /\ \A j \in 1..Len(info_calls) :
         /\ \A i \in 1..Len(info_calls) : i # j => info_calls[i] # info_calls[j]
         /\ \E i \in 1..Len(results) :
              /\ results[i].remote_path = info_calls[j]
              /\ ~results[i].is_dir \/ include_dirs
         /\ ~include_dirs => ~endswith(info_calls[j], <<"/">>)
    /\ ListReturned
       => /\ \A i \in 1..Len(results) :
               (~results[i].is_dir \/ include_dirs)
               => \E j \in 1..Len(info_calls) :
                    info_calls[j] = results[i].remote_path
          /\ \A n \in 1..Len(server.listing) :
               endswith(server.listing[n], <<"/">>)
               => \E i \in 1..Len(results) :
                    /\ results[i].is_dir
                    /\ results[i].name = rstrip(server.listing[n], {"/"})

\* with the toggle disabled a listing of a file and two directories has
\* returned: one info call, both directories returned
C16_Witness ==
    /\ ListReturned
    /\ ~include_dirs
    /\ Len(results) = 3
    /\ Len(info_calls) = 1
    /\ Cardinality({i \in 1..Len(results) : results[i].is_dir}) = 2

-----------------------------------------------------------------------------
(* C17..C20: sizes of directories, the mapping of errors, the names kept *)

\* the share listing has returned after the enumeration succeeded
ShareListed == smb_pc = "done" /\ directory.status = "ok"

\* C17: every entry list returns with is_dir set has size 0 (or unset),
\* whatever size the server reports for the directory.
C17_DirectoriesHaveNoSize ==
    /\ \A i \in 1..Len(media) : media[i].is_dir => media[i].size = 0
    /\ \A i \in 1..Len(results) : results[i].is_dir => results[i].size = None

\* the message contains one of the texts, whatever the case of its letters
Mentions(msg, texts) == \E x \in texts : contains(lower(msg), x)

Is401(msg) ==
    Mentions(msg, {<<" ", "4", "0", "1">>, <<"c", "o", "d", "e", " ", "4",
        "0", "1">>,
                   <<"n", "o", "t", "a", "u", "t", "h", "e", "n", "t",
                       "i", "c", "a", "t", "e", "d">>,
                   <<"u", "n", "a", "u", "t", "h", "o", "r", "i", "z",
                       "e", "d">>})

Is403(msg) ==
    Mentions(msg, {<<" ", "4", "0", "3">>, <<"c", "o", "d", "e", " ", "4",
        "0", "3">>,
                   <<"f", "o", "r", "b", "i", "d", "d", "e", "n">>})

Is404(msg) ==
    Mentions(msg, {<<" ", "4", "0", "4">>, <<"c", "o", "d", "e", " ", "4",
        "0", "4">>,
                   <<"n", "o", "t", " ", "f", "o", "u", "n", "d">>})

\* the list call has failed with the server's message
ListFailed == dav_pc = "done" /\ dav_op.op = "list" /\ server.error # None

C19_TransferErrorsMapped ==
    (dav_pc = "done" /\ dav_op.op \in {"download", "upload"}
                     /\ server.error # None)
    => /\ raised # None
       /\ raised[1].type \in {"WebDAVAuthError", "WebDAVNotFoundError",
                              "WebDAVConnectionError"}

\* the claim's test of a decoded name: ".", "..", empty, a lone byte-order
\* mark or a control character
C20_Excluded(name) ==
    \/ name \in {<<46>>, <<46, 46>>, <<>>, <<65279>>}
    \/ \E i \in 1..Len(name) : name[i] < 32

\* the names of the records that decode and pass the claim's test, in wire
\* order
RECURSIVE C20_Names(_)
C20_Names(records) ==
    IF records = <<>> THEN <<>>
    ELSE LET r == records[1]
             name == IF r.file_name = None THEN None
                     ELSE decode_utf16le(r.file_name[1])
         IN (IF name = None \/ C20_Excluded(name[1]) THEN <<>> ELSE name)
            \o C20_Names(Tail(records))

\* C20: the share list returns, in wire order, exactly the records whose
\* name decodes and is none of ".", "..", empty, a lone byte-order mark or
\* a name with a control character; an undecodable record is skipped and
\* the records after it are still handled.
C20_ExactlyTheNamedRecords ==
    ShareListed
    => [i \in 1..Len(media) |-> media[i].name] = C20_Names(directory.records)

-----------------------------------------------------------------------------
(* C21..C25: the share client's failures and transfers *)

\* C21: when the enumeration of the directory fails with a protocol error,
\* list_files_in_directory does not return a listing as a success.
C21_EnumerationFailureReported ==
    directory.status = "error" => smb_pc # "done"

\* the chunks of a script of reads, joined
RECURSIVE Concat(_)
Concat(rs) == IF rs = <<>> THEN <<>> ELSE rs[1].data \o Concat(Tail(rs))

\* the reads that returned a chunk, and the read that ended them
ChunkReads == SubSeq(share_file.reads, 1, Len(share_file.reads) - 1)
LastRead == share_file.reads[Len(share_file.reads)]

\* the last read is empty or fails with the end-of-file status
EndsFile ==
    \/ LastRead.exc = None
    \/ /\ LastRead.exc[1].type = "SMBResponseException"
       /\ LastRead.exc[1].msg \in {EofByName, EofByCode, EofAsInTest}

\* a download has ended whose remote file opened and whose destination
\* opened and took every chunk
Downloaded ==
    /\ xfer_pc = "done"
    /\ xfer_op.op = "download"
    /\ share_file.create = None
    /\ local_file.opens
    /\ local_file.writes >= Len(ChunkReads)

\* C22: when the reads give chunks and then an empty read or the
\* end-of-file status, every read is made at the number of bytes received
\* so far, the destination holds the chunks joined in order, and the
\* download returns without an exception.
C22_DownloadReconstructsFile ==
    (Downloaded /\ EndsFile)
    => /\ Len(read_calls) = Len(share_file.reads)
       /\ \A k \in 1..Len(read_calls) :
             read_calls[k][1] = Len(Concat(SubSeq(share_file.reads, 1, k - 1)))
       /\ f_out = Some(Concat(ChunkReads))
       /\ xfer_raised = None

\* two chunks, then the end-of-file status given by its code only
C22_Witness ==
    /\ Downloaded
    /\ Len(ChunkReads) = 2
    /\ LastRead.exc = Some(SMBResponseException(EofByCode))
    /\ f_out = Some(Concat(ChunkReads))
    /\ read_calls[3][1] = Len(Concat(ChunkReads))

\* C23: when a read fails with anything but the end-of-file status, no
\* further read is made, that exception leaves download_file, and the
\* destination holds exactly the chunks written before.
C23_ReadFailureSurfaces ==
    (Downloaded /\ ~EndsFile)
    => /\ Len(read_calls) = Len(share_file.reads)
       /\ xfer_raised = LastRead.exc
       /\ f_out = Some(Concat(ChunkReads))

\* one chunk written, then a read refused with another status
C23_Witness ==
    /\ Downloaded
    /\ Len(ChunkReads) = 1
    /\ LastRead.exc = Some(SMBResponseException(AccessDenied))
    /\ xfer_raised = LastRead.exc
    /\ f_out = Some(ChunkReads[1].data)

\* C24 as stated: whenever a download or an upload that built its Open
\* object returns or raises, close has been called on it.
C24_ClosedOnEveryExit ==
    (xfer_pc = "done" /\ file.state # "none") => close_calls = 1

\* C24: every exit of a download has called close once, and so has every
\* exit of an upload whose create succeeded; an upload whose create fails
\* raises without calling close.
C24_ClosedOnceCreated ==
    xfer_pc = "done"
    => IF xfer_op.op = "download" \/ file.state \in {"open", "closed"}
       THEN close_calls = 1
       ELSE close_calls = 0

\* a download whose create failed, closed all the same
C24_Witness ==
    /\ xfer_pc = "done"
    /\ xfer_op.op = "download"
    /\ share_file.create # None
    /\ xfer_raised = share_file.create
    /\ close_calls = 1

\* C25: an upload makes one write, of the whole content of the local file
\* at offset 0, to a remote file whose name is the last component of the
\* local path, without any directory.
C25_UploadWholeFileAtRoot ==
    (/\ xfer_pc = "done"
     /\ xfer_op.op = "upload"
     /\ local_file.content # None
     /\ share_file.create = None)
    => /\ write_calls = <<<<local_file.content[1], 0>>>>
       /\ LET name == file.name[1]
              path == xfer_op.local_path
          IN /\ name # <<>>
             /\ \A i \in 1..Len(name) : name[i] \notin {"/", "\\"}
             /\ endswith(path, name)
             /\ Len(path) > Len(name) => path[Len(path) - Len(name)] = "/"

\* the upload of /t/f, written whole to f
C25_Witness ==
    /\ xfer_pc = "done"
    /\ xfer_op = [op |-> "upload", local_path |-> <<"/", "t", "/", "f">>]
    /\ local_file.content = Some(<<1, 2>>)
    /\ file = [name |-> Some(<<"f">>), state |-> "closed"]
    /\ Len(write_calls) = 1
    /\ xfer_raised = None

-----------------------------------------------------------------------------
(* C26..C30: parent collections, the choice of the backend, the times *)

\* the non-empty components of a remote path
C26_Components(path) == SelectSeq(split(path, "/"), LAMBDA p : p # <<>>)

\* the directory part of a remote path: all but the last component
C26_Parent(path) ==
    LET parts == split(path, "/")
    IN join("/", SubSeq(parts, 1, Len(parts) - 1))

\* C26: an upload asks for one mkdir per prefix of the parent of its remote
\* path, from the root to the leaf and each with a trailing slash, goes on
\* after a refused mkdir, then transfers; no mkdir failure leaves upload,
\* and a path without a parent gets no mkdir at all.
C26_MakedirsRootToLeaf ==
    (dav_pc = "done" /\ dav_op.op = "upload")
    => LET comps == C26_Components(C26_Parent(dav_op.arg))
           n == Len(comps)
       IN /\ Len(client_calls) = n + 1
          /\ \A i \in 1..n :
                /\ client_calls[i].op = "mkdir"
                /\ client_calls[i].path
                      = join("/", SubSeq(comps, 1, i)) \o <<"/">>
          /\ client_calls[n + 1].op = "upload_sync"
          /\ client_calls[n + 1].path = dav_op.arg
          /\ (raised # None => server.error # None)

\* an upload to a/b/f whose first mkdir (a/) was refused and which still
\* asked for a/b/ and transferred
C26_Witness ==
    /\ dav_pc = "done"
    /\ dav_op = [op |-> "upload", arg |-> <<"a", "/", "b", "/", "f">>]
    /\ Len(client_calls) = 3
    /\ ~client_calls[1].ok
    /\ client_calls[2].ok
    /\ raised = None

\* a call of connect_to_backend has returned
Connected == call_pc = "done" /\ call.fn = "connect_to_backend"

\* C27: the backend is the cloud adapter exactly when the storage mode of
\* the descriptor is "cloud" in any case, and the share adapter otherwise,
\* whatever else the program can read.
C27_ChoiceByDescriptorAlone ==
    Connected
    => (returned.backend = "dav"
        <=> /\ call.session_info.storage # None
            /\ lower(call.session_info.storage[1]) = cloud)

Kept(r) ==
    /\ r.file_name # None
    /\ decode_utf16le(r.file_name[1]) # None
    /\ ~filtered_out(decode_utf16le(r.file_name[1])[1])

\* C29: of two listed records with times t1 <= t2 that both decode, the
\* first is not given a later modified time than the second.
C29_DecodingMonotonic ==
    ShareListed
    => LET kept == SelectSeq(directory.records, Kept)
       IN \A i, j \in 1..Len(media) :
            (/\ modified_val(kept[i]) # None
             /\ modified_val(kept[j]) # None
             /\ modified_val(kept[i])[1] <= modified_val(kept[j])[1]
             /\ media[i].modified # None
             /\ media[j].modified # None)
            => media[i].modified[1] <= media[j].modified[1]

\* the text is neither digits only nor ISO-8601
Unparseable(val) ==
    LET s == strip(val, WHITESPACE)
    IN ~isdigit(s) /\ fromisoformat(replace_Z(s)) = None

\* C30: _format_modified gives "" for every value that is neither a
\* number, a digit-only text nor an ISO-8601 text.
C30_UnparseableGivesNoValue ==
    (/\ call_pc = "done"
     /\ call.fn = "_format_modified"
     /\ call.val.type # "int"
     /\ call.val.type = "str" => Unparseable(call.val.v))
    => returned = NoValue

\* the worker has run a load in which the adapter raised
Failed == call_pc = "done" /\ call.fn = "run" /\ call.exc # None

C32_DescriptorUntouched ==
    [][swaps' = swaps => session_info' = session_info]_vars

\* C33: push(path) is a no-op when the normalized path equals the current
\* path: no load is started, no pending navigation is recorded, and the
\* history, the cursor, the current path and the listing stay as they were.
C33_PushOfCurrentPathIsNoOp ==
    [][\A raw \in RawTargets :
         (/\ is_cloud(session_info)
          /\ _normalize_cloud_path(raw) = _current_path
          /\ Push(raw))
         => /\ workers' = workers
            /\ started' = started
            /\ _loading' = _loading
            /\ _pending_nav_target' = _pending_nav_target
            /\ _pending_nav_mode' = _pending_nav_mode
            /\ _history' = _history
            /\ _history_index' = _history_index
            /\ _current_path' = _current_path
            /\ file_tree' = file_tree]_vars

\* the explorer shows a/b, reached by a push of \a/b/, with nothing in
\* flight and nothing pending: the state in which a second push of \a/b/
\* normalizes to the current path, and the state that push leaves
C33_Witness ==
    /\ is_cloud(session_info)
    /\ _root_handle # "None"
    /\ _current_path = PathAB
    /\ _normalize_cloud_path(<<"\\", "a", "/", "b", "/">>) = _current_path
    /\ <<"\\", "a", "/", "b", "/">> \in RawTargets
    /\ _history = <<ROOT, PathAB>>
    /\ _history_index = 1
    /\ workers = <<>>
    /\ _pending_nav_target = None
    /\ started < MaxLoads

\* C34: _loading and the stored worker and thread describe the load started
\* last: while the newest load in flight is undelivered, _loading is set and
\* self._loader_worker / self._loader_thread still refer to it, whatever
\* deferred _cleanup_loader of an earlier, delivered load has run; so no
\* further load starts beside it.
C34_RefsDescribeLatestLoad ==
    \A i \in 1..Len(workers) :
        (InFlight(workers[i]) /\ \A j \in (i + 1)..Len(workers) :
                                     ~InFlight(workers[j]))
        => /\ _loading
           /\ workers[i].ref
           /\ Cardinality(Undelivered) = 1

\* the history and the cursor after the commit of a navigation to t with
\* the given mode
Committed(t, mode) ==
    CASE mode = "push" -> <<push_history(t), Len(push_history(t)) - 1>>
      [] mode = "back" -> <<_history, Max(0, _history_index - 1)>>
      [] mode = "forward" ->
           <<_history, Min(Len(_history) - 1, _history_index + 1)>>
      [] OTHER -> <<_history, _history_index>>

\* C35: the successful completion of a navigation load commits the path and
\* the mode of the request that started that load, and displays the listing
\* of that path: the current path becomes the worker's own target, the
\* history and cursor move as its own mode says, and the entries shown are
\* those listed for the path now current.
C35_CommitsOwnRequest ==
    [][\A i \in 1..Len(workers) :
         (Delivered(i) /\ workers[i].st = "finished" /\ workers[i].kind = "nav")
         => /\ _current_path' = workers[i].target
            /\ <<_history', _history_index'>>
                 = Committed(workers[i].target, workers[i].mode)
            /\ file_tree' = RemoteListing(_current_path')]_vars

\* C36: the delivery of every successful load, full or navigation, leaves
\* displayed the listing of the directory then recorded as the current
\* path; a full load delivered while the current path is a subdirectory
\* shows that subdirectory's entries.
C36_ListingOfCurrentPath ==
    [][\A i \in 1..Len(workers) :
         (Delivered(i) /\ workers[i].st = "finished")
         => file_tree' = RemoteListing(_current_path')]_vars

\* C37: only the first successful load seeds the history: the delivery of a
\* successful full load after an earlier successful load that seeded the
\* history leaves the history entries and the cursor as they were.
C37_LaterFullLoadKeepsHistory ==
    [][\A i \in 1..Len(workers) :
         (/\ Delivered(i)
          /\ workers[i].st = "finished"
          /\ workers[i].kind = "full"
          /\ _ever_loaded_ok
          /\ _history # <<>>)
         => /\ _history' = _history
            /\ _history_index' = _history_index]_vars

\* C38: the storage mode the pre-connect validation assumes and the backend
\* chosen for the connect agree for every descriptor: the cloud adapter is
\* chosen exactly for the descriptors validated under the cloud rules.
C38_ValidationAgreesWithDispatch ==
    Connected
    => (_fetch_files_storage(call.session_info) = cloud
        <=> returned.backend = "dav")

\* C39: path normalization is idempotent: for every text of slashes,
\* backslashes, spaces and name characters, normalizing the normalized path
\* returns it unchanged.
C39_NormalizeIdempotent ==
    (call_pc = "done" /\ call.fn = "_normalize_cloud_path")
    => _normalize_cloud_path(returned.value) = returned.value

\* the read at the current offset ends the file: it is empty or fails
\* with the end-of-file status
AtEnd ==
    LET r == file_read(offset)
    IN IF r.exc = None THEN r.data = <<>>
       ELSE /\ r.exc[1].type = "SMBResponseException"
            /\ r.exc[1].msg \in {EofByName, EofByCode, EofAsInTest}

\* C40: the loop of a download ends for every finite remote file whose
\* reads give the bytes at the offset asked for and whose end is an empty
\* read or the end-of-file status: an iteration that writes a non-empty
\* chunk moves the offset forward by its length, the first empty read or
\* end-of-file status leaves the loop without an exception, and a download
\* that has entered the loop returns.
C40_DownloadLoopTerminates ==
    /\ [][(/\ xfer_pc = "read"
           /\ xfer_pc' = "read")
          => /\ file_read(offset).data # <<>>
             /\ offset' = offset + Len(file_read(offset).data)
             /\ offset' > offset]_xfer_vars
    /\ [][(xfer_pc = "read" /\ AtEnd)
          => /\ xfer_pc' = "finally"
             /\ xfer_raised' = None
             /\ offset' = offset]_xfer_vars
    /\ (xfer_pc = "read" /\ EndsFile) ~> (xfer_pc = "done")

\* a file of three bytes came in two chunks read at 0 and at 1, the read at
\* 3 was empty, and the download has returned
C40_Witness ==
    /\ Downloaded
    /\ xfer_raised = None
    /\ LastRead = [data |-> <<>>, exc |-> None]
    /\ read_calls = <<<<0, chunk_size>>, <<1, chunk_size>>, <<3, chunk_size>>>>
    /\ offset = 3
    /\ f_out = Some(<<1, 2, 1>>)

====
